---- MODULE Spec2Model ----
(***************************************************************************)
(* Alert pipeline of the netsec backend: normalizer, deduplicator,        *)
(* correlator, severity classifier, dispatcher and the alert service that  *)
(* chains them in front of the persistent store and the event bus.         *)
(*                                                                         *)
(* Time is a discrete clock `now` standing for datetime.now(timezone.utc). *)
(* Python dicts keep insertion order, so the dedup table is a sequence of  *)
(* entries in insertion order.                                             *)
(***************************************************************************)
EXTENDS Integers, Sequences, FiniteSets, TLC

VARIABLES
    now,        \* the wall clock read by datetime.now(timezone.utc)
    window,     \* AlertDeduplicator._window, in clock ticks
    max_size,   \* AlertDeduplicator._max_size
    seen,       \* AlertDeduplicator._seen, in dict insertion order
    last,       \* the last deduplicator call: its arguments, the table before it, its result
    recent,     \* AlertCorrelator._recent: device IP -> list of (source tool, correlation id, time)
    next_cid,   \* the number of correlation ids minted so far (uuid4().hex[:12] is fresh)
    rows,       \* the alerts table of the store, in insertion order; the id is the position
    queue,      \* EventBus._queue
    call,       \* the process_raw_alert call in flight or, when idle, the last one
    cfg,        \* settings.alerts.dispatch: which channels are configured
    normalized, \* the alerts a bare normalizer has returned so far
    cls,        \* a bare classifier: its rules, its input and its result
    corr_last,  \* the last call of a bare correlator: its arguments, the table before it, its result
    subscribers,          \* EventBus._subscribers: event type -> handlers, in registration order
    wildcard_subscribers, \* EventBus._wildcard_subscribers, in registration order
    bus_queue,            \* EventBus._queue of a bus on its own
    max_queue_size,       \* the maxsize of EventBus._queue
    running,              \* EventBus._running
    task,                 \* EventBus._task: the dispatch task start created last, 0 for None
    tasks,                \* every dispatch task created so far and where it stands in _process_loop
    putters,              \* the events of the publish calls that wait for room in the queue
    buslog,               \* what was registered, published, dropped and delivered so far
    connections,          \* ConnectionManager._connections
    lock,                 \* the holder of ConnectionManager._lock and the calls waiting for it
    procs,                \* the connect, disconnect and broadcast calls in flight
    wslog,                \* the sends of the last broadcast pass and the list it started from
    scans,                \* the Scan records of the session, in creation order; the id is the position
    devices,              \* the Device records of the session, in creation order; the id is the position
    published,            \* the events ScanService, DeviceService and MonitoringService published
    scall,                \* the create_scan call in flight or, when idle, the last one
    dcall,                \* the last call on the device table made on its own, and the hosts upserted
    adapters,             \* AdapterRegistry._adapters: tool name -> adapter
    initlog,              \* the init_all call: where it stands, what it called, what it returned
    regops,               \* the health_check_all or shutdown_all call: where it stands, what it called
    sched,                \* Scheduler: its jobs, the handler's calls, the jobs the scheduler library holds
    mon,                  \* MonitoringService._previous_tool_status, the status cache of the app, the fires
    proc,                 \* a run_command call: its arguments, the child process, where it stands
    pcalls                \* process_raw_alert calls in flight at the same time on one service

dedup_vars == <<now, window, max_size, seen, last>>
service_vars == <<recent, next_cid, rows, queue, call, cfg>>
pure_vars == <<normalized, cls>>
bus_vars == <<subscribers, wildcard_subscribers, bus_queue, max_queue_size, running, task,
              tasks, putters, buslog>>
ws_vars == <<connections, lock, procs, wslog>>
scan_vars == <<scans, devices, published, scall, dcall>>
reg_vars == <<adapters, initlog>>
ops_vars == <<regops, sched, mon, proc, pcalls>>
ext_vars == <<corr_last, bus_vars, ws_vars, scan_vars, reg_vars, ops_vars>>

vars == <<now, window, max_size, seen, last, recent, next_cid, rows, queue, call, cfg,
          normalized, cls, corr_last, subscribers, wildcard_subscribers, bus_queue,
          max_queue_size, running, task, tasks, putters, buslog, connections, lock, procs,
          wslog, scans, devices, published, scall, dcall, adapters, initlog, regops, sched, mon,
          proc, pcalls>>

----------------------------------------------------------------------------
(* Bounds of the model *)

MaxTime == 3        \* the clock runs from 0 to MaxTime
MaxWindow == 1      \* dedup windows 0..MaxWindow are tried; the service is configured with MaxWindow
MaxSize == 2        \* table capacities 1..MaxSize are tried
NumFp == 2          \* fingerprints 1..NumFp are fed to the bare deduplicator
MaxCount == 2       \* a dedup entry is not counted beyond MaxCount
MaxEvictSize == 8   \* full tables of 1..MaxEvictSize entries are tried for eviction
MaxRows == 2        \* the store holds at most MaxRows alerts
MaxQueue == 1       \* capacity of the event queue
MaxFaults == 1      \* the store fails at most MaxFaults times
MaxNormalized == 2  \* a bare normalizer is called MaxNormalized times
MaxRules == 2       \* rule lists of 0..MaxRules rules are tried
CorrelationWindow == 2  \* AlertCorrelator._window, in clock ticks
MaxCorrelated == 3  \* a bare correlator is called MaxCorrelated times
MaxBusQueue == 1    \* a bus on its own has a queue of maxsize 0 (no limit) or MaxBusQueue
MaxHandlers == 2    \* at most MaxHandlers handlers are registered on a bus
MaxEvents == 2      \* at most MaxEvents events are handed to a bus
MaxTasks == 2       \* start is called at most MaxTasks times
MaxRaised == 1      \* at most MaxRaised handler calls raise an Exception
MaxClients == 2     \* websocket clients of a connection manager on its own
MaxCalls == 4       \* calls made on a connection manager on its own
MaxScans == 2       \* create_scan is called at most MaxScans times
MaxHosts == 2       \* an adapter result lists at most MaxHosts hosts
MaxScanFaults == 1  \* flush and publish raise at most MaxScanFaults times during the scans
MaxCancels == 1     \* cancel_scan is called at most MaxCancels times on a scan
MaxUpserts == 3     \* upsert_from_scan is called at most MaxUpserts times on a device table on its own
MaxThreshold == 1   \* the offline threshold of a sweep is at most MaxThreshold ticks
MaxAdapters == 2    \* a registry holds at most MaxAdapters adapters
MaxInits == 2       \* init_all is called at most MaxInits times
MaxRegCalls == 2    \* health_check_all and shutdown_all are called at most MaxRegCalls times
MaxJobs == 2        \* add_job is called at most MaxJobs times
MaxFires == 3       \* the scheduler fires jobs at most MaxFires times
MaxDevices == 2     \* the device table a sweep starts from has at most MaxDevices rows
MaxRuns == 3        \* run_command is called at most MaxRuns times
MaxReturnCode == 2  \* a child exits with a return code of 0..MaxReturnCode

----------------------------------------------------------------------------
(* Sequence helpers *)

RECURSIVE KeepIdx(_, _, _)
\* the subsequence of s at the indices in K, from index i on, order kept
KeepIdx(s, K, i) ==
    IF i > Len(s) THEN <<>>
    ELSE IF i \in K THEN <<s[i]>> \o KeepIdx(s, K, i + 1)
    ELSE KeepIdx(s, K, i + 1)

\* index of the entry of tbl for fingerprint fp, 0 when absent (fp in self._seen)
IndexOf(tbl, fp) ==
    IF \E i \in DOMAIN tbl : tbl[i].fp = fp
    THEN CHOOSE i \in DOMAIN tbl : tbl[i].fp = fp
    ELSE 0

----------------------------------------------------------------------------
(* AlertDeduplicator *)

NewEntry(fp, t) == [fp |-> fp, first_seen |-> t, last_seen |-> t, count |-> 1]

\* a quarter of the entries, rounded down, with no least number
CountToRemoveQuarter(n) == n \div 4

\* len(self._seen) // 4 or 1
CountToRemove(n) == IF n \div 4 = 0 THEN 1 ELSE n \div 4

\* an eviction order by insertion instead of by last_seen
SortRankByInsertion(tbl, i) == Cardinality({j \in DOMAIN tbl : j < i})

\* position of entry i in sorted(self._seen, key=last_seen); sorted() is stable
SortRank(tbl, i) ==
    Cardinality({j \in DOMAIN tbl :
        \/ tbl[j].last_seen < tbl[i].last_seen
        \/ (tbl[j].last_seen = tbl[i].last_seen /\ j < i)})

\* _evict_oldest: delete the first CountToRemove fingerprints of the sorted list
EvictOldest(tbl) ==
    LET k == CountToRemove(Len(tbl))
    IN  KeepIdx(tbl, {i \in DOMAIN tbl : SortRank(tbl, i) >= k}, 1)

\* a check that treats an occurrence exactly one window old as expired
WithinWindowStrict(t, last_seen, w) == t - last_seen < w

\* the test `now - last_seen <= self._window` of check
WithinWindow(t, last_seen, w) == t - last_seen <= w

\* check: the table afterwards and the returned pair (is_new, count)
DedupCheck(tbl, fp, t, w, m) ==
    LET i == IndexOf(tbl, fp) IN
    IF i # 0
    THEN IF WithinWindow(t, tbl[i].last_seen, w)
         THEN [seen   |-> [tbl EXCEPT ![i] = [fp |-> fp, first_seen |-> tbl[i].first_seen,
                                               last_seen |-> t, count |-> tbl[i].count + 1]],
               is_new |-> FALSE,
               count  |-> tbl[i].count + 1]
         ELSE [seen   |-> [tbl EXCEPT ![i] = NewEntry(fp, t)],
               is_new |-> TRUE,
               count  |-> 1]
    ELSE LET kept == IF Len(tbl) >= m THEN EvictOldest(tbl) ELSE tbl
         IN  [seen   |-> Append(kept, NewEntry(fp, t)),
              is_new |-> TRUE,
              count  |-> 1]

\* a cleanup that expires entries after one window instead of two
ExpiredOneWindow(t, last_seen, w) == t - last_seen > w

\* the test `now - last_seen > self._window * 2` of cleanup
Expired(t, last_seen, w) == t - last_seen > w * 2

\* cleanup: the table afterwards and the number of entries removed
DedupCleanup(tbl, t, w) ==
    LET expired == {i \in DOMAIN tbl : Expired(t, tbl[i].last_seen, w)}
    IN  [seen    |-> KeepIdx(tbl, DOMAIN tbl \ expired, 1),
         removed |-> Cardinality(expired)]

\* the variables of the alert service, in a specification without one
ServiceUnused ==
    /\ recent = <<>>
    /\ next_cid = 0
    /\ rows = <<>>
    /\ queue = <<>>
    /\ call = <<>>
    /\ cfg = <<>>

\* the variables of the bare normalizer and classifier, in a specification without them
PureUnused ==
    /\ normalized = <<>>
    /\ cls = <<>>

\* the variables of a bare correlator, in a specification without one
CorrUnused == corr_last = <<>>

\* the variables of a bus on its own, in a specification without one
BusUnused ==
    /\ subscribers = <<>>
    /\ wildcard_subscribers = <<>>
    /\ bus_queue = <<>>
    /\ max_queue_size = 0
    /\ running = FALSE
    /\ task = 0
    /\ tasks = <<>>
    /\ putters = {}
    /\ buslog = <<>>

\* the variables of the connection manager, in a specification without one
WsUnused ==
    /\ connections = <<>>
    /\ lock = 0
    /\ procs = <<>>
    /\ wslog = <<>>

\* the variables of the scan and device services, in a specification without them
ScanUnused ==
    /\ scans = <<>>
    /\ devices = <<>>
    /\ published = <<>>
    /\ scall = <<>>
    /\ dcall = <<>>

\* the variables of the adapter registry, in a specification without one
RegUnused ==
    /\ adapters = <<>>
    /\ initlog = <<>>

\* the variables of the registry's other calls, the scheduler, the monitoring
\* service, the process runner and concurrent pipeline calls, when not in use
OpsUnused ==
    /\ regops = <<>>
    /\ sched = <<>>
    /\ mon = <<>>
    /\ proc = <<>>
    /\ pcalls = <<>>

ExtUnused == CorrUnused /\ BusUnused /\ WsUnused /\ ScanUnused /\ RegUnused /\ OpsUnused

\* the variables of the deduplicator, in a specification without one
DedupUnused ==
    /\ now = 0
    /\ window = 0
    /\ max_size = 1
    /\ seen = <<>>
    /\ last = <<>>

NoCall == [op |-> "none", prev_op |-> "none", prev_removed |-> 0, fp |-> 0, pre |-> <<>>,
           is_new |-> FALSE, count |-> 0, removed |-> 0]

\* AlertDeduplicator.__init__ with the constructor arguments w and m
DedupInit(w, m) ==
    /\ window = w
    /\ max_size = m
    /\ seen = <<>>
    /\ last = NoCall

\* one call of check(alert) with alert.fingerprint = fp
Check(fp) ==
    LET r == DedupCheck(seen, fp, now, window, max_size) IN
    /\ r.count <= MaxCount
    /\ seen' = r.seen
    /\ last' = [op |-> "check", prev_op |-> last.op, prev_removed |-> last.removed,
                fp |-> fp, pre |-> seen,
                is_new |-> r.is_new, count |-> r.count, removed |-> 0]
    /\ UNCHANGED <<now, window, max_size, service_vars, pure_vars, ext_vars>>

\* one call of cleanup()
Cleanup ==
    LET r == DedupCleanup(seen, now, window) IN
    /\ seen' = r.seen
    /\ last' = [op |-> "cleanup", prev_op |-> last.op, prev_removed |-> last.removed,
                fp |-> 0, pre |-> seen,
                is_new |-> FALSE, count |-> 0, removed |-> r.removed]
    /\ UNCHANGED <<now, window, max_size, service_vars, pure_vars, ext_vars>>

\* the clock advances between two calls
DedupTick ==
    /\ now < MaxTime
    /\ now' = now + 1
    /\ last' = [NoCall EXCEPT !.op = "tick", !.prev_op = last.op,
                                !.prev_removed = last.removed]
    /\ UNCHANGED <<window, max_size, seen, service_vars, pure_vars, ext_vars>>

InitDedup ==
    /\ now = 0
    /\ \E w \in 0..MaxWindow, m \in 1..MaxSize : DedupInit(w, m)
    /\ ServiceUnused
    /\ PureUnused
    /\ ExtUnused

NextDedup ==
    \/ \E fp \in 1..NumFp : Check(fp)
    \/ Cleanup
    \/ DedupTick

SpecDedup == InitDedup /\ [][NextDedup]_vars

----------------------------------------------------------------------------
(* AlertNormalizer                                                          *)
(*                                                                          *)
(* A raw record is a Python dict, here a function from its keys to values.  *)
(* A title is the sequence of the pieces an f-string puts together.  An     *)
(* empty string is "", an empty fingerprint the empty sequence.  CVSS       *)
(* scores are counted in tenths.                                            *)

\* dict.get(k, dflt)
Get(d, k, dflt) == IF k \in DOMAIN d THEN d[k] ELSE dflt

\* the lower-case words of interest that occur in the lower-cased string s
WordsIn(s) ==
    CASE s = "Scan::Port_Scan"    -> {"scan", "port"}
      [] s = "Exploit::Attempt"   -> {"exploit", "attempt"}
      [] s = "ET SCAN Nmap"       -> {"scan", "nmap"}
      [] s = "SSH brute force"    -> {"ssh", "brute"}
      [] OTHER                    -> {}

\* str.lower() of a rule keyword
Lower(s) ==
    CASE s = "SCAN" -> "scan"
      [] s = "Scan" -> "scan"
      [] s = "SSH"  -> "ssh"
      [] OTHER      -> s

\* NormalizedAlert(...): source_tool and fingerprint keep their defaults
NormalizedAlert(title, description, severity, category, device_ip, ts) ==
    [title |-> title, description |-> description, severity |-> severity,
     source_tool |-> "", category |-> category, device_ip |-> device_ip,
     fingerprint |-> <<>>, timestamp |-> ts]

_suricata_severity(level) ==
    CASE level = 1 -> "critical"
      [] level = 2 -> "high"
      [] level = 3 -> "medium"
      [] OTHER     -> "low"

_zeek_severity(note) ==
    IF "attack" \in WordsIn(note) \/ "exploit" \in WordsIn(note) THEN "critical"
    ELSE IF "scan" \in WordsIn(note) THEN "medium"
    ELSE "info"

_cvss_to_severity(score10) ==
    IF score10 >= 90 THEN "critical"
    ELSE IF score10 >= 70 THEN "high"
    ELSE IF score10 >= 40 THEN "medium"
    ELSE IF score10 > 0 THEN "low"
    ELSE "info"

_ossec_severity(level) ==
    IF level >= 12 THEN "critical"
    ELSE IF level >= 8 THEN "high"
    ELSE IF level >= 4 THEN "medium"
    ELSE IF level >= 2 THEN "low"
    ELSE "info"

_normalize_nmap(data, ts) ==
    NormalizedAlert(<<Get(data, "title", "Nmap finding")>>, Get(data, "output", ""),
                    Get(data, "severity", "info"), "vulnerability",
                    Get(data, "host", ""), ts)

_normalize_suricata(data, ts) ==
    LET alert_data == Get(data, "alert", <<>>) IN
    NormalizedAlert(<<Get(alert_data, "signature", "Suricata alert")>>,
                    Get(alert_data, "category", "unknown"),
                    _suricata_severity(Get(alert_data, "severity", 3)), "intrusion",
                    Get(data, "src_ip", ""), ts)

_normalize_zeek(data, ts) ==
    NormalizedAlert(<<Get(data, "note", "Zeek notice")>>, Get(data, "msg", ""),
                    _zeek_severity(Get(data, "note", "")), "anomaly",
                    Get(data, "src", ""), ts)

_normalize_openvas(data, ts) ==
    NormalizedAlert(<<Get(data, "name", "OpenVAS finding")>>, Get(data, "description", ""),
                    _cvss_to_severity(Get(data, "cvss_score", 0)), "vulnerability",
                    Get(data, "host", ""), ts)

_normalize_clamav(data, ts) ==
    NormalizedAlert(<<"Malware detected: ", Get(data, "signature", "unknown")>>,
                    Get(data, "file", "unknown"), "high", "malware",
                    Get(data, "host", ""), ts)

_normalize_ossec(data, ts) ==
    NormalizedAlert(<<Get(data, "description", "OSSEC alert")>>, Get(data, "full_log", ""),
                    _ossec_severity(Get(data, "level", 0)), "intrusion",
                    Get(data, "srcip", ""), ts)

_normalize_fail2ban(data, ts) ==
    NormalizedAlert(<<"IP banned: ", Get(data, "ip", "unknown"), " in jail ",
                      Get(data, "jail", "unknown")>>,
                    "", "medium", "policy", Get(data, "ip", ""), ts)

_normalize_generic(source, data, ts) ==
    NormalizedAlert(IF "title" \in DOMAIN data THEN <<data["title"]>>
                    ELSE IF "message" \in DOMAIN data THEN <<data["message"]>>
                    ELSE <<"Alert from ", source>>,
                    Get(data, "description", ""), Get(data, "severity", "info"),
                    Get(data, "category", "unknown"),
                    IF "ip" \in DOMAIN data THEN data["ip"] ELSE Get(data, "host", ""), ts)

\* hashlib.sha256(key.encode()).hexdigest()[:16]: a digest taken to be free
\* of collisions, so that two digests are equal exactly when the keys are
Sha16(key) == <<"sha256", 16>> \o key

\* a fingerprint key that also takes in the severity
FingerprintKeyWithSeverity(alert) ==
    <<alert.source_tool, ":", alert.category, ":">> \o alert.title
        \o <<":", alert.device_ip, ":", alert.severity>>

\* the f-string key of _generate_fingerprint
FingerprintKey(alert) ==
    <<alert.source_tool, ":", alert.category, ":">> \o alert.title \o <<":", alert.device_ip>>

_generate_fingerprint(alert) == Sha16(FingerprintKey(alert))

\* normalize(source_tool, raw_data) at time ts
Normalize(source_tool, raw_data, ts) ==
    LET alert ==
            CASE source_tool = "nmap"     -> _normalize_nmap(raw_data, ts)
              [] source_tool = "suricata" -> _normalize_suricata(raw_data, ts)
              [] source_tool = "zeek"     -> _normalize_zeek(raw_data, ts)
              [] source_tool = "openvas"  -> _normalize_openvas(raw_data, ts)
              [] source_tool = "clamav"   -> _normalize_clamav(raw_data, ts)
              [] source_tool = "ossec"    -> _normalize_ossec(raw_data, ts)
              [] source_tool = "fail2ban" -> _normalize_fail2ban(raw_data, ts)
              [] OTHER                    -> _normalize_generic(source_tool, raw_data, ts)
        fingerprinted ==
            IF alert.fingerprint = <<>>
            THEN [alert EXCEPT !.fingerprint = _generate_fingerprint(alert)]
            ELSE alert
    IN  [fingerprinted EXCEPT !.source_tool = source_tool]

----------------------------------------------------------------------------
(* SeverityClassifier *)

\* SEVERITY_LEVELS.get(severity, 0)
SeverityLevel(severity) ==
    CASE severity = "critical" -> 4
      [] severity = "high"     -> 3
      [] severity = "medium"   -> 2
      [] severity = "low"      -> 1
      [] severity = "info"     -> 0
      [] OTHER                 -> 0

SeverityRule(name, condition, value, target_severity, escalate_only) ==
    [name |-> name, condition |-> condition, value |-> value,
     target_severity |-> target_severity, escalate_only |-> escalate_only]

\* a count_above value is a string of decimal digits, here the sequence of its digits
DEFAULT_RULES == <<
    SeverityRule("critical_intrusion", "category", "intrusion", "high", TRUE),
    SeverityRule("malware_escalate", "category", "malware", "high", TRUE),
    SeverityRule("repeated_high", "count_above", <<1, 0>>, "critical", TRUE) >>

RECURSIVE IntOf(_)
\* int(value) of a string of decimal digits
IntOf(digits) ==
    IF digits = <<>> THEN 0
    ELSE 10 * IntOf(SubSeq(digits, 1, Len(digits) - 1)) + digits[Len(digits)]

\* a match in which a count_above rule already fires at its threshold
RuleMatchesAtThreshold(rule, alert, occurrence_count) ==
    CASE rule.condition = "category"    -> alert.category = rule.value
      [] rule.condition = "source_tool" -> alert.source_tool = rule.value
      [] rule.condition = "keyword"     ->
             \E i \in DOMAIN alert.title : Lower(rule.value) \in WordsIn(alert.title[i])
      [] rule.condition = "count_above" -> occurrence_count >= IntOf(rule.value)
      [] OTHER                          -> FALSE

\* the match statement of classify: does the rule's condition hold
RuleMatches(rule, alert, occurrence_count) ==
    CASE rule.condition = "category"    -> alert.category = rule.value
      [] rule.condition = "source_tool" -> alert.source_tool = rule.value
      [] rule.condition = "keyword"     ->
             \E i \in DOMAIN alert.title : Lower(rule.value) \in WordsIn(alert.title[i])
      [] rule.condition = "count_above" -> ~(occurrence_count <= IntOf(rule.value))
      [] OTHER                          -> FALSE

\* an escalate-only test that lets a rule through whatever its target
SkipsRuleNever(rule, current_level) == FALSE

\* `rule.escalate_only and target_level <= current_level`
SkipsRule(rule, current_level) ==
    rule.escalate_only /\ SeverityLevel(rule.target_severity) <= current_level

RECURSIVE ApplyRules(_, _, _, _, _)
\* the loop of classify from rule i on, with the severity reached so far
ApplyRules(rules, i, alert, occurrence_count, current) ==
    IF i > Len(rules) THEN current
    ELSE IF /\ RuleMatches(rules[i], alert, occurrence_count)
            /\ ~SkipsRule(rules[i], SeverityLevel(current))
         THEN ApplyRules(rules, i + 1, alert, occurrence_count, rules[i].target_severity)
         ELSE ApplyRules(rules, i + 1, alert, occurrence_count, current)

\* SeverityClassifier(rules).classify(alert, occurrence_count); `rules or DEFAULT_RULES`
Classify(rules, alert, occurrence_count) ==
    ApplyRules(IF rules = <<>> THEN DEFAULT_RULES ELSE rules, 1,
               alert, occurrence_count, alert.severity)

----------------------------------------------------------------------------
(* A deduplicator whose table is full: n fingerprints were inserted at time *)
(* 0 into a table of capacity n, and the fingerprints in `again` were seen  *)
(* a second time at time 1, inside the window.                              *)

FullTable(n, again) ==
    [i \in 1..n |-> IF i \in again
                    THEN [fp |-> i, first_seen |-> 0, last_seen |-> 1, count |-> 2]
                    ELSE [fp |-> i, first_seen |-> 0, last_seen |-> 0, count |-> 1]]

InitEvict ==
    /\ now = 1
    /\ window = 1
    /\ \E n \in 1..MaxEvictSize, again \in SUBSET (1..MaxEvictSize) :
          /\ again \subseteq 1..n
          /\ max_size = n
          /\ seen = FullTable(n, again)
    /\ last = NoCall
    /\ ServiceUnused
    /\ PureUnused
    /\ ExtUnused

\* one check on the full table, of a known or of an unknown fingerprint
NextEvict ==
    /\ last.op = "none"
    /\ \E fp \in 1..(max_size + 1) : Check(fp)

SpecEvict == InitEvict /\ [][NextEvict]_vars

----------------------------------------------------------------------------
(* A bare normalizer, fed raw records of several tools *)

RawSamples == <<
    [tool |-> "nmap",
     raw |-> [title |-> "SSH brute force", host |-> "10.0.0.5", severity |-> "low", output |-> "o1"]],
    [tool |-> "nmap",
     raw |-> [title |-> "SSH brute force", host |-> "10.0.0.5", severity |-> "high", output |-> "o2"]],
    [tool |-> "nmap", raw |-> [host |-> "10.0.0.5"]],
    [tool |-> "openvas",
     raw |-> [name |-> "SSH brute force", host |-> "10.0.0.5", cvss_score |-> 75, oid |-> "1.3.6"]],
    [tool |-> "suricata",
     raw |-> [alert |-> [signature |-> "ET SCAN Nmap", signature_id |-> 2001, severity |-> 2,
                         category |-> "Attempted Recon"],
              src_ip |-> "10.0.0.5"]],
    [tool |-> "suricata",
     raw |-> [alert |-> [signature |-> "ET SCAN Nmap", severity |-> 1], src_ip |-> "10.0.0.5"]],
    [tool |-> "ossec",
     raw |-> [description |-> "ET SCAN Nmap", srcip |-> "10.0.0.5", level |-> 9, rule_id |-> 5710]],
    [tool |-> "zeek",
     raw |-> [note |-> "Scan::Port_Scan", msg |-> "port scan", src |-> "10.0.0.6"]],
    [tool |-> "clamav",
     raw |-> [signature |-> "Eicar", file |-> "/tmp/a", host |-> "10.0.0.6"]],
    [tool |-> "clamav",
     raw |-> [signature |-> "Eicar", file |-> "/tmp/b", host |-> "10.0.0.6"]],
    [tool |-> "fail2ban", raw |-> [ip |-> "10.0.0.6", jail |-> "sshd", failures |-> 5]],
    [tool |-> "custom",
     raw |-> [title |-> "SSH brute force", category |-> "vulnerability", host |-> "10.0.0.5"]],
    [tool |-> "custom",
     raw |-> [title |-> "SSH brute force", category |-> "vulnerability", ip |-> "10.0.0.5",
              host |-> "10.0.0.9", severity |-> "medium", description |-> "seen twice"]],
    [tool |-> "custom", raw |-> [message |-> "disk full"]] >>

InitNorm ==
    /\ DedupUnused
    /\ ServiceUnused
    /\ normalized = <<>>
    /\ cls = <<>>
    /\ ExtUnused

\* one call normalize(source_tool, raw_data) on sample i
NormalizeCall(i) ==
    /\ Len(normalized) < MaxNormalized
    /\ normalized' = Append(normalized,
            [input |-> i, alert |-> Normalize(RawSamples[i].tool, RawSamples[i].raw, now)])
    /\ UNCHANGED <<dedup_vars, service_vars, cls, ext_vars>>

NextNorm == \E i \in DOMAIN RawSamples : NormalizeCall(i)

SpecNorm == InitNorm /\ [][NextNorm]_vars

----------------------------------------------------------------------------
(* A bare classifier, given a rule list, an alert and an occurrence count *)

RulePool == <<
    DEFAULT_RULES[1],
    DEFAULT_RULES[2],
    DEFAULT_RULES[3],
    SeverityRule("zeek_low", "source_tool", "zeek", "low", TRUE),
    SeverityRule("scan_keyword", "keyword", "SCAN", "medium", TRUE),
    SeverityRule("seen_twice", "count_above", <<1>>, "medium", TRUE),
    SeverityRule("bad_target", "category", "malware", "urgent", TRUE),
    SeverityRule("bad_condition", "regex", "ET.*", "critical", TRUE),
    SeverityRule("intrusion_override", "category", "intrusion", "info", FALSE) >>

\* the alerts handed to the bare classifier; "weird" is a severity outside SEVERITY_LEVELS
ClassifyAlerts ==
    [severity : {"critical", "high", "medium", "low", "info", "weird"},
     category : {"intrusion", "malware", "policy"},
     source_tool : {"zeek", "nmap"},
     title : {<<"ET SCAN Nmap">>, <<"disk full">>}]

CountSamples == {1, 10, 11}

InitClassify ==
    /\ DedupUnused
    /\ ServiceUnused
    /\ normalized = <<>>
    /\ \E n \in 0..MaxRules :
         \E pick \in [1..n -> DOMAIN RulePool], alert \in ClassifyAlerts, count \in CountSamples :
            cls = [rules |-> [k \in 1..n |-> RulePool[pick[k]]], alert |-> alert,
                   count |-> count, done |-> FALSE, result |-> ""]
    /\ ExtUnused

\* one call SeverityClassifier(rules).classify(alert, count)
ClassifyCall ==
    /\ cls.done = FALSE
    /\ cls' = [cls EXCEPT !.done = TRUE,
                          !.result = Classify(cls.rules, cls.alert, cls.count)]
    /\ UNCHANGED <<dedup_vars, service_vars, normalized, ext_vars>>

NextClassify == ClassifyCall

SpecClassify == InitClassify /\ [][NextClassify]_vars

----------------------------------------------------------------------------
(* Properties of the normalizer and the classifier *)

SameKeyFields(a, b) ==
    /\ a.source_tool = b.source_tool
    /\ a.category = b.category
    /\ a.title = b.title
    /\ a.device_ip = b.device_ip

\* C8: two raw records normalized with identical (source tool, category,
\* title, device IP) get equal fingerprints, whatever their other fields are
\* and whatever was normalized before.
C8_FingerprintDeterministic ==
    \A i, j \in DOMAIN normalized :
        SameKeyFields(normalized[i].alert, normalized[j].alert)
            => normalized[i].alert.fingerprint = normalized[j].alert.fingerprint

\* two different raw records that differ in severity share the four fields and the fingerprint
C8_Witness ==
    \E i, j \in DOMAIN normalized :
        /\ i < j
        /\ normalized[i].input # normalized[j].input
        /\ SameKeyFields(normalized[i].alert, normalized[j].alert)
        /\ normalized[i].alert.severity # normalized[j].alert.severity
        /\ normalized[i].alert.fingerprint = normalized[j].alert.fingerprint
        /\ normalized[i].alert.fingerprint # <<>>

\* C9: the fingerprint is the digest of "source:category:title:device-ip"
\* with the source tool passed to normalize in front, so two alerts equal in
\* category, title and device IP but from different source tools have
\* different fingerprints.
C9_FingerprintCoversSourceTool ==
    /\ \A i \in DOMAIN normalized :
          normalized[i].alert.fingerprint =
              Sha16(<<RawSamples[normalized[i].input].tool, ":",
                      normalized[i].alert.category, ":">>
                    \o normalized[i].alert.title
                    \o <<":", normalized[i].alert.device_ip>>)
    /\ \A i, j \in DOMAIN normalized :
          ( /\ normalized[i].alert.source_tool # normalized[j].alert.source_tool
            /\ normalized[i].alert.category = normalized[j].alert.category
            /\ normalized[i].alert.title = normalized[j].alert.title
            /\ normalized[i].alert.device_ip = normalized[j].alert.device_ip )
          => normalized[i].alert.fingerprint # normalized[j].alert.fingerprint

\* C10: with a rule list of escalate-only rules, classify returns a severity
\* whose level is at least the level of the alert's input severity, for
\* every alert and every occurrence count.
C10_EscalateOnlyNeverLowers ==
    (cls.done /\ \A k \in DOMAIN cls.rules : cls.rules[k].escalate_only)
        => SeverityLevel(cls.result) >= SeverityLevel(cls.alert.severity)

\* an escalate-only rule with a lower target matched and the severity was kept,
\* while another rule raised it
C10_Witness ==
    /\ cls.done
    /\ Len(cls.rules) >= 2
    /\ \A k \in DOMAIN cls.rules : cls.rules[k].escalate_only
    /\ \E k \in DOMAIN cls.rules :
          /\ RuleMatches(cls.rules[k], cls.alert, cls.count)
          /\ SeverityLevel(cls.rules[k].target_severity) < SeverityLevel(cls.alert.severity)
    /\ SeverityLevel(cls.result) > SeverityLevel(cls.alert.severity)

\* the severity of the highest level among a set of severities of distinct levels
MaxSeverity(S) == CHOOSE x \in S : \A y \in S : SeverityLevel(y) <= SeverityLevel(x)

\* the severities the default rules put forward for an alert seen count times
DefaultCandidates(alert, count) ==
    {alert.severity}
        \cup (IF alert.category \in {"intrusion", "malware"} THEN {"high"} ELSE {})
        \cup (IF count > 10 THEN {"critical"} ELSE {})

\* C11: with the default rule set classify returns the maximum of the alert's
\* input severity, high if the category is intrusion or malware, and critical
\* if the count is above 10; a count of exactly 10 does not fire the count rule.
C11_DefaultRulesMaximum ==
    (cls.done /\ cls.rules = <<>>)
        => /\ SeverityLevel(cls.result)
                = SeverityLevel(MaxSeverity(DefaultCandidates(cls.alert, cls.count)))
           /\ cls.result \in DefaultCandidates(cls.alert, cls.count)
           /\ (cls.count = 10 /\ cls.alert.category = "policy")
                => cls.result = cls.alert.severity

\* a medium malware alert seen once came out high
C11_Witness ==
    /\ cls.done
    /\ cls.rules = <<>>
    /\ cls.alert.category = "malware"
    /\ cls.alert.severity = "medium"
    /\ cls.count = 1
    /\ cls.result = "high"

----------------------------------------------------------------------------
(* AlertCorrelator *)

\* the correlation id of an alert that is not correlated (None)
NoCorrelation == 0

\* self._recent[device_ip] of the defaultdict
RecentOf(rec, ip) == IF ip \in DOMAIN rec THEN rec[ip] ELSE <<>>

\* a correlator that keeps entries for twice the window, as its cleanup does
WithinCorrelationWindowTwice(t, timestamp) == t - timestamp <= CorrelationWindow * 2

\* the test `now - ts <= self._window` of correlate
WithinCorrelationWindow(t, timestamp) == t - timestamp <= CorrelationWindow

\* correlate(alert) at time t when `minted` ids were minted before: the table
\* afterwards, the id returned and the number of ids minted
Correlate(rec, alert, t, minted) ==
    IF alert.device_ip = ""
    THEN [recent |-> rec, cid |-> NoCorrelation, minted |-> minted]
    ELSE LET Live(e) == WithinCorrelationWindow(t, e.timestamp)
             device_alerts == SelectSeq(RecentOf(rec, alert.device_ip), Live)
             others == {i \in DOMAIN device_alerts :
                            device_alerts[i].source_tool # alert.source_tool}
             cid == IF others # {}
                    THEN device_alerts[CHOOSE i \in others : \A k \in others : i <= k].correlation_id
                    ELSE minted + 1
             entry == [source_tool |-> alert.source_tool, correlation_id |-> cid, timestamp |-> t]
         IN  [recent |-> [ip \in DOMAIN rec \cup {alert.device_ip} |->
                              IF ip = alert.device_ip THEN Append(device_alerts, entry)
                              ELSE rec[ip]],
              cid    |-> cid,
              minted |-> IF others # {} THEN minted ELSE minted + 1]

\* the alerts handed to a bare correlator: two tools, two devices and no device
CorrelateTools == {"suricata", "zeek"}
CorrelateDevices == {"10.0.0.5", "10.0.0.6", ""}

NoCorrelate == [op |-> "none", source_tool |-> "", device_ip |-> "", pre |-> <<>>,
                minted |-> 0, cid |-> NoCorrelation]

InitCorrelate ==
    /\ now = 0
    /\ window = 0
    /\ max_size = 1
    /\ seen = <<>>
    /\ last = <<>>
    /\ recent = <<>>
    /\ next_cid = 0
    /\ rows = <<>>
    /\ queue = <<>>
    /\ call = <<>>
    /\ cfg = <<>>
    /\ PureUnused
    /\ corr_last = NoCorrelate
    /\ BusUnused
    /\ WsUnused
    /\ ScanUnused
    /\ RegUnused
    /\ OpsUnused

\* one call correlate(alert) of an alert of the given tool and device
CorrelateCall(source_tool, device_ip) ==
    LET alert == [NormalizedAlert(<<"ET SCAN Nmap">>, "", "medium", "intrusion", device_ip, now)
                    EXCEPT !.source_tool = source_tool]
        c == Correlate(recent, alert, now, next_cid)
    IN  /\ corr_last.minted < MaxCorrelated
        /\ recent' = c.recent
        /\ next_cid' = c.minted
        /\ corr_last' = [op |-> "correlate", source_tool |-> source_tool, device_ip |-> device_ip,
                         pre |-> recent, minted |-> corr_last.minted + 1, cid |-> c.cid]
        /\ UNCHANGED <<dedup_vars, rows, queue, call, cfg, pure_vars, bus_vars, ws_vars, scan_vars, reg_vars, ops_vars>>

\* the clock advances between two calls
CorrelateTick ==
    /\ now < MaxTime
    /\ now' = now + 1
    /\ corr_last' = [corr_last EXCEPT !.op = "tick"]
    /\ UNCHANGED <<window, max_size, seen, last, service_vars, pure_vars, bus_vars, ws_vars, scan_vars, reg_vars, ops_vars>>

NextCorrelate ==
    \/ \E source_tool \in CorrelateTools, device_ip \in CorrelateDevices :
          CorrelateCall(source_tool, device_ip)
    \/ CorrelateTick

SpecCorrelate == InitCorrelate /\ [][NextCorrelate]_vars

\* the correlation ids held anywhere in a correlator table
IdsIn(rec) == UNION {{rec[ip][k].correlation_id : k \in DOMAIN rec[ip]} : ip \in DOMAIN rec}

\* C12: for an alert with a device IP, correlate drops that IP's entries older
\* than the correlation window, returns the id of the first remaining entry
\* (in insertion order) whose source tool differs from the alert's, otherwise
\* an id no entry holds, and appends the alert under the returned id; an entry
\* older than the window never lends its id, and other devices' entries are
\* left alone.
C12_CorrelateFirstOtherTool ==
    (corr_last.op = "correlate" /\ corr_last.device_ip # "") =>
        LET ip == corr_last.device_ip
            before == RecentOf(corr_last.pre, ip)
            live == {k \in DOMAIN before : now - before[k].timestamp <= CorrelationWindow}
            others == {k \in live : before[k].source_tool # corr_last.source_tool}
            after == recent[ip]
        IN  /\ Len(after) = Cardinality(live) + 1
            /\ SubSeq(after, 1, Len(after) - 1)
                  = SelectSeq(before, LAMBDA e : now - e.timestamp <= CorrelationWindow)
            /\ after[Len(after)] = [source_tool |-> corr_last.source_tool,
                                     correlation_id |-> corr_last.cid, timestamp |-> now]
            /\ IF others # {}
               THEN \E k \in others :
                       /\ \A j \in others : k <= j
                       /\ corr_last.cid = before[k].correlation_id
               ELSE corr_last.cid \notin IdsIn(corr_last.pre)
            /\ corr_last.cid # NoCorrelation
            /\ \A other \in DOMAIN corr_last.pre \ {ip} : recent[other] = corr_last.pre[other]

\* a zeek alert got the id of a live suricata entry on its device although an
\* older entry of a third call had expired and was dropped
C12_Witness ==
    /\ corr_last.op = "correlate"
    /\ corr_last.source_tool = "zeek"
    /\ corr_last.device_ip = "10.0.0.5"
    /\ \E k \in DOMAIN RecentOf(corr_last.pre, "10.0.0.5") :
          /\ corr_last.pre["10.0.0.5"][k].source_tool = "suricata"
          /\ corr_last.pre["10.0.0.5"][k].correlation_id = corr_last.cid
          /\ now - corr_last.pre["10.0.0.5"][k].timestamp <= CorrelationWindow
    /\ \E k \in DOMAIN RecentOf(corr_last.pre, "10.0.0.5") :
          /\ now - corr_last.pre["10.0.0.5"][k].timestamp > CorrelationWindow
          /\ corr_last.pre["10.0.0.5"][k].correlation_id # corr_last.cid

----------------------------------------------------------------------------
(* AlertDispatcher: each channel reports "sent" or "failed"; "raise" stands *)
(* for an exception that leaves the channel's method                        *)

\* a webhook channel that lets the exception of a failed post escape
_send_webhook_uncaught(ok) == IF ok THEN "sent" ELSE "raise"

\* _send_webhook: True, or False when anything in the try block raised
_send_webhook(ok) == IF ok THEN "sent" ELSE "failed"

\* _send_email: True, or False when anything in the try block raised
_send_email(ok) == IF ok THEN "sent" ELSE "failed"

\* dispatch(alert, correlation_id) when the webhook post succeeds iff wok and
\* the SMTP session iff eok
Dispatch(config, wok, eok) ==
    LET webhook == IF config.webhook_url THEN _send_webhook(wok) ELSE "skipped"
        email == IF config.email_enabled THEN _send_email(eok) ELSE "skipped"
    IN  [raised |-> "raise" \in {webhook, email}, webhook |-> webhook, email |-> email]

----------------------------------------------------------------------------
(* AlertService in front of the store and the event bus.  One clock tick is *)
(* longer than the processing of one record, so the clock stands still      *)
(* while a call is in flight.                                                *)

DefaultMaxSize == 10000

PipelineInputs == <<
    [tool |-> "suricata",
     raw |-> [alert |-> [signature |-> "ET SCAN Nmap", severity |-> 3], src_ip |-> "10.0.0.5"]],
    [tool |-> "zeek",
     raw |-> [note |-> "Scan::Port_Scan", msg |-> "port scan", src |-> "10.0.0.5"]] >>

Statuses == {"open", "resolved"}

\* DispatchConfig: the default (no channel configured) and both channels configured
DispatchConfigs ==
    {[webhook_url |-> FALSE, email_enabled |-> FALSE],
     [webhook_url |-> TRUE, email_enabled |-> TRUE]}

Event(type, alert_id) == [type |-> type, alert_id |-> alert_id]

\* no call in flight; faults counts the store failures so far, channel_failed
\* tells whether a channel of the call's dispatch reported a failure
IdleCall ==
    [pc |-> "idle", alert |-> NormalizedAlert(<<>>, "", "", "", "", 0),
     is_new |-> FALSE, count |-> 0, cid |-> NoCorrelation, row |-> 0, result |-> "none",
     trace |-> <<>>, channel_failed |-> FALSE, faults |-> 0]

\* the Alert built by _create_alert at time t; its id is its position in the table
NewAlert(id, alert, correlation_id, count, t) ==
    [id |-> id, fingerprint |-> alert.fingerprint, source_tool |-> alert.source_tool,
     severity |-> alert.severity, status |-> "open", count |-> count,
     first_seen |-> alert.timestamp, last_seen |-> t, correlation_id |-> correlation_id]

\* select(Alert).where(Alert.fingerprint == fingerprint)
RowsWithFingerprint(tbl, fingerprint) ==
    {i \in DOMAIN tbl : tbl[i].fingerprint = fingerprint}

\* an update that also raises the severity of an alert that occurred again
UpdateExistingAlertEscalating(tbl, fingerprint, count, t) ==
    LET found == RowsWithFingerprint(tbl, fingerprint)
    IN  IF Cardinality(found) > 1 THEN [raised |-> TRUE, rows |-> tbl]
        ELSE IF found = {} THEN [raised |-> FALSE, rows |-> tbl]
        ELSE LET i == CHOOSE k \in found : TRUE
             IN  [raised |-> FALSE,
                  rows |-> [tbl EXCEPT ![i].count = count, ![i].last_seen = t,
                                       ![i].severity = "critical"]]

\* _update_existing_alert: scalar_one_or_none() gives None for no row, the
\* row for one row, and raises MultipleResultsFound for more than one
UpdateExistingAlert(tbl, fingerprint, count, t) ==
    LET found == RowsWithFingerprint(tbl, fingerprint)
    IN  IF Cardinality(found) > 1 THEN [raised |-> TRUE, rows |-> tbl]
        ELSE IF found = {} THEN [raised |-> FALSE, rows |-> tbl]
        ELSE LET i == CHOOSE k \in found : TRUE
             IN  [raised |-> FALSE,
                  rows |-> [tbl EXCEPT ![i].count = count, ![i].last_seen = t]]

InitService ==
    /\ now = 0
    /\ DedupInit(MaxWindow, DefaultMaxSize)
    /\ recent = <<>>
    /\ next_cid = 0
    /\ rows = <<>>
    /\ queue = <<>>
    /\ call = IdleCall
    /\ cfg \in DispatchConfigs
    /\ PureUnused
    /\ ExtUnused

\* process_raw_alert up to its first await: normalize, dedup check and, for a
\* new alert, correlate and classify
Begin(i) ==
    /\ call.pc = "idle"
    /\ LET alert == Normalize(PipelineInputs[i].tool, PipelineInputs[i].raw, now)
           r == DedupCheck(seen, alert.fingerprint, now, window, max_size)
           c == Correlate(recent, alert, now, next_cid)
           started == [IdleCall EXCEPT !.is_new = r.is_new, !.count = r.count,
                                       !.faults = call.faults]
       IN  /\ r.count <= MaxCount
           /\ r.is_new => Len(rows) < MaxRows
           /\ seen' = r.seen
           /\ IF r.is_new
              THEN /\ recent' = c.recent
                   /\ next_cid' = c.minted
                   /\ call' = [started EXCEPT
                                 !.pc = "persist",
                                 !.alert = [alert EXCEPT !.severity = Classify(<<>>, alert, r.count)],
                                 !.cid = c.cid,
                                 !.trace = <<"normalize", "dedup", "correlate", "classify">>]
              ELSE /\ UNCHANGED <<recent, next_cid>>
                   /\ call' = [started EXCEPT !.pc = "update", !.alert = alert,
                                              !.trace = <<"normalize", "dedup">>]
    /\ UNCHANGED <<now, window, max_size, last, rows, queue, cfg, pure_vars, ext_vars>>

\* the call ends: it returns the alert, returns None, or raises
Finished(c, result) == [c EXCEPT !.pc = "done", !.result = result]

\* the store fails (execute or flush raises) and the call raises
StoreFails ==
    /\ call.pc \in {"update", "persist"}
    /\ call.faults < MaxFaults
    /\ call' = [Finished(call, "raised") EXCEPT !.faults = call.faults + 1]
    /\ UNCHANGED <<dedup_vars, recent, next_cid, rows, queue, cfg, pure_vars, ext_vars>>

\* the duplicate branch: await self._update_existing_alert(fingerprint, count); return None
UpdateExisting ==
    /\ call.pc = "update"
    /\ LET u == UpdateExistingAlert(rows, call.alert.fingerprint, call.count, now)
       IN  /\ rows' = u.rows
           /\ call' = Finished([call EXCEPT !.trace = Append(call.trace, "update")],
                               IF u.raised THEN "raised" ELSE "None")
    /\ UNCHANGED <<dedup_vars, recent, next_cid, queue, cfg, pure_vars, ext_vars>>

\* alert = await self._create_alert(normalized, correlation_id, count)
Persist ==
    /\ call.pc = "persist"
    /\ rows' = Append(rows, NewAlert(Len(rows) + 1, call.alert, call.cid, call.count, now))
    /\ call' = [call EXCEPT !.pc = "dispatch", !.row = Len(rows) + 1,
                            !.trace = Append(call.trace, "persist")]
    /\ UNCHANGED <<dedup_vars, recent, next_cid, queue, cfg, pure_vars, ext_vars>>

\* await self._dispatcher.dispatch(normalized, correlation_id)
DispatchStep(wok, eok) ==
    /\ call.pc = "dispatch"
    /\ LET d == Dispatch(cfg, wok, eok)
       IN  call' = IF d.raised THEN Finished(call, "raised")
                   ELSE [call EXCEPT !.pc = "publish",
                                     !.channel_failed = "failed" \in {d.webhook, d.email},
                                     !.trace = Append(call.trace, "dispatch")]
    /\ UNCHANGED <<dedup_vars, recent, next_cid, rows, queue, cfg, pure_vars, ext_vars>>

\* await self.event_bus.publish(Event(ALERT_CREATED, ...)), which waits for
\* room in the queue; return alert
PublishStep ==
    /\ call.pc = "publish"
    /\ Len(queue) < MaxQueue
    /\ queue' = Append(queue, Event("alert.created", call.row))
    /\ call' = Finished([call EXCEPT !.trace = Append(call.trace, "publish")], "alert")
    /\ UNCHANGED <<dedup_vars, recent, next_cid, rows, cfg, pure_vars, ext_vars>>

\* the caller has the outcome of the call; the service is idle again
Return ==
    /\ call.pc = "done"
    /\ call' = [IdleCall EXCEPT !.faults = call.faults]
    /\ UNCHANGED <<dedup_vars, recent, next_cid, rows, queue, cfg, pure_vars, ext_vars>>

\* update_alert(alert_id, status=status) of a request that changes the status
UpdateAlert(alert_id, status) ==
    /\ alert_id \in DOMAIN rows
    /\ rows[alert_id].status # status
    /\ Len(queue) < MaxQueue
    /\ rows' = [rows EXCEPT ![alert_id].status = status]
    /\ queue' = Append(queue, Event(IF status = "resolved" THEN "alert.resolved"
                                    ELSE "alert.updated", alert_id))
    /\ UNCHANGED <<dedup_vars, recent, next_cid, call, cfg, pure_vars, ext_vars>>

\* the dispatch task of the bus takes the next event off the queue
BusTake ==
    /\ queue # <<>>
    /\ queue' = Tail(queue)
    /\ UNCHANGED <<dedup_vars, recent, next_cid, rows, call, cfg, pure_vars, ext_vars>>

\* the clock advances between two calls
Tick ==
    /\ call.pc = "idle"
    /\ now < MaxTime
    /\ now' = now + 1
    /\ UNCHANGED <<window, max_size, seen, last, service_vars, pure_vars, ext_vars>>

Next ==
    \/ \E i \in DOMAIN PipelineInputs : Begin(i)
    \/ StoreFails
    \/ UpdateExisting
    \/ Persist
    \/ \E wok, eok \in BOOLEAN : DispatchStep(wok, eok)
    \/ PublishStep
    \/ Return
    \/ \E alert_id \in 1..MaxRows, status \in Statuses : UpdateAlert(alert_id, status)
    \/ BusTake
    \/ Tick

Init == InitService

\* the service fed raw records while other requests update alert statuses
Spec == Init /\ [][Next]_vars

\* the service fed raw records only
NextRecords ==
    \/ \E i \in DOMAIN PipelineInputs : Begin(i)
    \/ StoreFails
    \/ UpdateExisting
    \/ Persist
    \/ \E wok, eok \in BOOLEAN : DispatchStep(wok, eok)
    \/ PublishStep
    \/ Return
    \/ BusTake
    \/ Tick

SpecRecords == Init /\ [][NextRecords]_vars

----------------------------------------------------------------------------
(* EventBus on its own.  A handler is named by the position of its          *)
(* registration; an event by a number minted when it is built.  A dispatch  *)
(* task is suspended either in wait_for(self._queue.get()) or inside the    *)
(* handler it awaits; everything between two suspensions is one step.  The  *)
(* log notes of a registration whether it was made before any event was     *)
(* built, and of an event taken how many handlers were registered then.     *)

EventTypes == {"alert.created", "scan.started"}

BusEvent(id, type) == [id |-> id, type |-> type]

NoEvent == BusEvent(0, "")

\* a queue that is full only once it holds more than maxsize items
QueueFullAbove(q, maxsize) == maxsize > 0 /\ Len(q) > maxsize

\* asyncio.Queue.full(): a maxsize of 0 or less means no limit
QueueFull(q, maxsize) == maxsize > 0 /\ Len(q) >= maxsize

\* asyncio.Queue.put_nowait: raises QueueFull when the queue is full
PutNowait(q, maxsize, event) ==
    IF QueueFull(q, maxsize) THEN [raised |-> TRUE, queue |-> q]
    ELSE [raised |-> FALSE, queue |-> Append(q, event)]

\* a queue that hands out its newest item
QueueGetNewest(q) == [event |-> q[Len(q)], queue |-> SubSeq(q, 1, Len(q) - 1)]

\* asyncio.Queue.get on a queue that holds an item: the oldest one
QueueGet(q) == [event |-> Head(q), queue |-> Tail(q)]

\* publish_nowait: the QueueFull of put_nowait is caught and logged
PublishNowaitOutcome(q, maxsize, event) ==
    LET r == PutNowait(q, maxsize, event)
    IN  [raised |-> FALSE, dropped |-> r.raised, queue |-> r.queue]

\* the handlers of every type, whatever the event's type
TypedOfAnyType(subs, type) ==
    (IF "alert.created" \in DOMAIN subs THEN subs["alert.created"] ELSE <<>>)
        \o (IF "scan.started" \in DOMAIN subs THEN subs["scan.started"] ELSE <<>>)

\* self._subscribers.get(event.type, [])
TypedOf(subs, type) == IF type \in DOMAIN subs THEN subs[type] ELSE <<>>

\* a loop that walks the list from its end
HandlerAtFromEnd(handlers, idx) == handlers[Len(handlers) + 1 - idx]

\* the handler the for loop reaches at position idx of the list it walks
HandlerAt(handlers, idx) == handlers[idx]

\* the next handler _process_loop awaits for the event, from position idx of
\* the typed loop or of the wildcard loop on; found is FALSE when both loops
\* are through
NextHandler(subs, wild, event, phase, idx) ==
    IF phase = "typed" /\ idx <= Len(TypedOf(subs, event.type))
    THEN [found |-> TRUE, phase |-> "typed", idx |-> idx,
          handler |-> HandlerAt(TypedOf(subs, event.type), idx)]
    ELSE LET j == IF phase = "typed" THEN 1 ELSE idx
         IN  IF j <= Len(wild)
             THEN [found |-> TRUE, phase |-> "wildcard", idx |-> j,
                   handler |-> HandlerAt(wild, j)]
             ELSE [found |-> FALSE, phase |-> "wildcard", idx |-> j, handler |-> 0]

\* a loop in which the exception of a handler escapes
AfterHandlerUncaught(outcome) == IF outcome = "raised" THEN "raise" ELSE "continue"

\* try: await handler(event) / except Exception: logger.exception(...)
AfterHandler(outcome) == "continue"

\* a dispatch task: waiting for an event, inside a handler, or ended
WaitingTask == [pc |-> "wait", event |-> NoEvent, phase |-> "typed", idx |-> 0]

\* EventBus.__init__(max_queue_size)
InitBus ==
    /\ DedupUnused
    /\ ServiceUnused
    /\ PureUnused
    /\ CorrUnused
    /\ WsUnused
    /\ ScanUnused
    /\ RegUnused
    /\ OpsUnused
    /\ subscribers = <<>>
    /\ wildcard_subscribers = <<>>
    /\ bus_queue = <<>>
    /\ max_queue_size \in {0, MaxBusQueue}
    /\ running = FALSE
    /\ task = 0
    /\ tasks = <<>>
    /\ putters = {}
    /\ buslog = [next_event |-> 0, reg |-> <<>>, published |-> <<>>, taken |-> <<>>,
                 dispatched |-> {}, delivered |-> <<>>, suspended |-> {}, dropped |-> {},
                 raised |-> {}]

BusOthersUnchanged ==
    UNCHANGED <<dedup_vars, service_vars, pure_vars, corr_last, ws_vars, scan_vars, reg_vars, ops_vars>>

\* subscribe(event_type, handler)
Subscribe(type) ==
    /\ Len(buslog.reg) < MaxHandlers
    /\ LET handler == Len(buslog.reg) + 1
       IN  /\ subscribers' = [t \in DOMAIN subscribers \cup {type} |->
                                 IF t = type THEN Append(TypedOf(subscribers, type), handler)
                                 ELSE subscribers[t]]
           /\ buslog' = [buslog EXCEPT
                           !.reg = Append(@, [handler |-> handler, kind |-> "typed", type |-> type,
                                              first |-> buslog.next_event = 0])]
    /\ UNCHANGED <<wildcard_subscribers, bus_queue, max_queue_size, running, task, tasks, putters>>
    /\ BusOthersUnchanged

\* subscribe_all(handler)
SubscribeAll ==
    /\ Len(buslog.reg) < MaxHandlers
    /\ LET handler == Len(buslog.reg) + 1
       IN  /\ wildcard_subscribers' = Append(wildcard_subscribers, handler)
           /\ buslog' = [buslog EXCEPT
                           !.reg = Append(@, [handler |-> handler, kind |-> "wildcard", type |-> "",
                                              first |-> buslog.next_event = 0])]
    /\ UNCHANGED <<subscribers, bus_queue, max_queue_size, running, task, tasks, putters>>
    /\ BusOthersUnchanged

\* the events that entered the queue so far, with one more
Published(log, event) == Append(log.published, event)

\* await publish(event): the event enters the queue at once when there is
\* room, otherwise the caller is suspended in put
Publish(type) ==
    /\ buslog.next_event < MaxEvents
    /\ LET event == BusEvent(buslog.next_event + 1, type)
       IN  IF QueueFull(bus_queue, max_queue_size)
           THEN /\ putters' = putters \cup {event}
                /\ bus_queue' = bus_queue
                /\ buslog' = [buslog EXCEPT !.next_event = @ + 1,
                                            !.suspended = @ \cup {event.id}]
           ELSE /\ putters' = putters
                /\ bus_queue' = Append(bus_queue, event)
                /\ buslog' = [buslog EXCEPT !.next_event = @ + 1,
                                            !.published = Published(buslog, event)]
    /\ UNCHANGED <<subscribers, wildcard_subscribers, max_queue_size, running, task, tasks>>
    /\ BusOthersUnchanged

\* a publish call suspended in put finds room, enqueues its event and returns
PutterEnqueues(event) ==
    /\ event \in putters
    /\ ~QueueFull(bus_queue, max_queue_size)
    /\ putters' = putters \ {event}
    /\ bus_queue' = Append(bus_queue, event)
    /\ buslog' = [buslog EXCEPT !.published = Published(buslog, event)]
    /\ UNCHANGED <<subscribers, wildcard_subscribers, max_queue_size, running, task, tasks>>
    /\ BusOthersUnchanged

\* publish_nowait(event)
PublishNowait(type) ==
    /\ buslog.next_event < MaxEvents
    /\ LET event == BusEvent(buslog.next_event + 1, type)
           r == PublishNowaitOutcome(bus_queue, max_queue_size, event)
       IN  /\ bus_queue' = r.queue
           /\ buslog' = [buslog EXCEPT
                           !.next_event = @ + 1,
                           !.published = IF r.dropped THEN @ ELSE Published(buslog, event),
                           !.dropped = IF r.dropped /\ ~r.raised THEN @ \cup {event.id} ELSE @,
                           !.raised = IF r.raised THEN @ \cup {event.id} ELSE @]
    /\ UNCHANGED <<subscribers, wildcard_subscribers, max_queue_size, running, task, tasks, putters>>
    /\ BusOthersUnchanged

\* start(): sets _running and creates a dispatch task, whatever ran before
Start ==
    /\ Len(tasks) < MaxTasks
    /\ running' = TRUE
    /\ tasks' = Append(tasks, WaitingTask)
    /\ task' = Len(tasks) + 1
    /\ UNCHANGED <<subscribers, wildcard_subscribers, bus_queue, max_queue_size, putters, buslog>>
    /\ BusOthersUnchanged

\* self._task.cancel() takes effect where the task is suspended: in
\* wait_for the CancelledError is caught and the loop left, inside a handler
\* it is no Exception and ends the task with the event half dispatched
Cancelled(t) ==
    CASE t.pc = "wait"    -> [t EXCEPT !.pc = "done"]
      [] t.pc = "handler" -> [t EXCEPT !.pc = "cancelled"]
      [] OTHER            -> t

\* stop(): clears _running, cancels self._task and awaits its end
Stop ==
    /\ running' = FALSE
    /\ tasks' = IF task = 0 THEN tasks ELSE [tasks EXCEPT ![task] = Cancelled(@)]
    /\ UNCHANGED <<subscribers, wildcard_subscribers, bus_queue, max_queue_size, task, putters,
                   buslog>>
    /\ BusOthersUnchanged

\* task k goes on with its event from position idx of the given loop: it
\* awaits the next handler or, when both loops are through, tests _running
Proceed(k, event, phase, idx, log) ==
    LET n == NextHandler(subscribers, wildcard_subscribers, event, phase, idx)
    IN  IF n.found
        THEN /\ tasks' = [tasks EXCEPT ![k] = [pc |-> "handler", event |-> event,
                                               phase |-> n.phase, idx |-> n.idx]]
             /\ buslog' = [log EXCEPT !.delivered =
                              Append(@, [handler |-> n.handler, event |-> event.id,
                                         outcome |-> "running"])]
        ELSE /\ tasks' = [tasks EXCEPT ![k] = [WaitingTask EXCEPT
                                                 !.pc = IF running THEN "wait" ELSE "done"]]
             /\ buslog' = [log EXCEPT !.dispatched = @ \cup {event.id}]

\* wait_for(self._queue.get()) of task k returns an event
TaskTake(k) ==
    /\ k \in DOMAIN tasks
    /\ tasks[k].pc = "wait"
    /\ bus_queue # <<>>
    /\ LET g == QueueGet(bus_queue)
       IN  /\ bus_queue' = g.queue
           /\ Proceed(k, g.event, "typed", 1,
                      [buslog EXCEPT !.taken = Append(@, [event |-> g.event.id,
                                                          handlers |-> Len(buslog.reg)])])
    /\ UNCHANGED <<subscribers, wildcard_subscribers, max_queue_size, running, task, putters>>
    /\ BusOthersUnchanged

\* wait_for of task k times out after the bus was stopped: the loop ends
TaskTimeout(k) ==
    /\ k \in DOMAIN tasks
    /\ tasks[k].pc = "wait"
    /\ bus_queue = <<>>
    /\ ~running
    /\ tasks' = [tasks EXCEPT ![k].pc = "done"]
    /\ UNCHANGED <<subscribers, wildcard_subscribers, bus_queue, max_queue_size, running, task,
                   putters, buslog>>
    /\ BusOthersUnchanged

\* the last entry of the log for the handler task k is in
RunningEntry(log, k) ==
    CHOOSE i \in DOMAIN log.delivered :
        /\ log.delivered[i].event = tasks[k].event.id
        /\ log.delivered[i].outcome = "running"

\* the handler calls that raised so far
Raised(log) == Cardinality({i \in DOMAIN log.delivered : log.delivered[i].outcome = "raised"})

\* the handler task k awaits returns or raises an Exception
HandlerEnds(k, outcome) ==
    /\ k \in DOMAIN tasks
    /\ tasks[k].pc = "handler"
    /\ outcome = "raised" => Raised(buslog) < MaxRaised
    /\ LET log == [buslog EXCEPT !.delivered[RunningEntry(buslog, k)].outcome = outcome]
       IN  IF AfterHandler(outcome) = "continue"
           THEN Proceed(k, tasks[k].event, tasks[k].phase, tasks[k].idx + 1, log)
           ELSE /\ tasks' = [tasks EXCEPT ![k].pc = "failed"]
                /\ buslog' = log
    /\ UNCHANGED <<subscribers, wildcard_subscribers, bus_queue, max_queue_size, running, task,
                   putters>>
    /\ BusOthersUnchanged

\* a bus that is started once and not stopped
NextBus ==
    \/ \E type \in EventTypes : Subscribe(type)
    \/ SubscribeAll
    \/ \E type \in EventTypes : Publish(type)
    \/ \E event \in putters : PutterEnqueues(event)
    \/ \E type \in EventTypes : PublishNowait(type)
    \/ (tasks = <<>> /\ Start)
    \/ \E k \in 1..MaxTasks : TaskTake(k)
    \/ \E k \in 1..MaxTasks, outcome \in {"returned", "raised"} : HandlerEnds(k, outcome)

SpecBus == InitBus /\ [][NextBus]_vars

\* a bus that is started and stopped at any time, any number of times
NextBusLifecycle ==
    \/ \E type \in EventTypes : Subscribe(type)
    \/ SubscribeAll
    \/ \E type \in EventTypes : Publish(type)
    \/ \E event \in putters : PutterEnqueues(event)
    \/ \E type \in EventTypes : PublishNowait(type)
    \/ Start
    \/ Stop
    \/ \E k \in 1..MaxTasks : TaskTake(k)
    \/ \E k \in 1..MaxTasks : TaskTimeout(k)
    \/ \E k \in 1..MaxTasks, outcome \in {"returned", "raised"} : HandlerEnds(k, outcome)

SpecBusLifecycle == InitBus /\ [][NextBusLifecycle]_vars

----------------------------------------------------------------------------
(* ConnectionManager on its own.  A call is named by its position in procs; *)
(* it is suspended in websocket.accept(), in the acquisition of the lock or  *)
(* in ws.send_text(), and everything between two suspensions is one step.   *)
(* asyncio.Lock wakes its waiters first come, first served.                  *)

Clients == 1..MaxClients

\* a lock that lets every caller in
LockAlwaysFree(l) == TRUE

\* asyncio.Lock.acquire returns at once: the lock is not held and nobody waits
LockFree(l) == l.holder = 0 /\ l.waiters = <<>>

\* asyncio.Lock.release
Release(l) == [l EXCEPT !.holder = 0]

\* list.remove(ws): the first occurrence goes
Remove(list, ws) ==
    IF \E i \in DOMAIN list : list[i] = ws
    THEN LET i == CHOOSE i \in DOMAIN list : list[i] = ws /\ \A j \in 1..(i - 1) : list[j] # ws
         IN  SubSeq(list, 1, i - 1) \o SubSeq(list, i + 1, Len(list))
    ELSE list

\* for ws in stale: self._connections.remove(ws)
RECURSIVE RemoveStale(_, _)
RemoveStale(list, stale) ==
    IF stale = <<>> THEN list ELSE RemoveStale(Remove(list, Head(stale)), Tail(stale))

WsCall(op, ws, pc) == [op |-> op, ws |-> ws, pc |-> pc, idx |-> 0, stale |-> <<>>, waited |-> FALSE]

\* ConnectionManager.__init__
InitWs ==
    /\ DedupUnused
    /\ ServiceUnused
    /\ PureUnused
    /\ CorrUnused
    /\ BusUnused
    /\ ScanUnused
    /\ RegUnused
    /\ OpsUnused
    /\ connections = <<>>
    /\ lock = [holder |-> 0, waiters |-> <<>>]
    /\ procs = <<>>
    /\ wslog = <<>>

WsOthersUnchanged ==
    UNCHANGED <<dedup_vars, service_vars, pure_vars, corr_last, bus_vars, scan_vars, reg_vars, ops_vars>>

\* call p of the calls ps holds the lock l: the body of its async with block
\* up to the first await, or to the release of the lock when it has none
RunLocked(p, ps, l) ==
    LET c == ps[p]
    IN  CASE c.op = "connect" ->
               /\ connections' = Append(connections, c.ws)
               /\ procs' = [ps EXCEPT ![p].pc = "done"]
               /\ lock' = Release(l)
               /\ wslog' = wslog
          [] c.op = "disconnect" ->
               /\ connections' = Remove(connections, c.ws)
               /\ procs' = [ps EXCEPT ![p].pc = "done"]
               /\ lock' = Release(l)
               /\ wslog' = wslog
          [] OTHER ->
               IF connections = <<>>
               THEN /\ connections' = connections
                    /\ procs' = [ps EXCEPT ![p].pc = "done"]
                    /\ lock' = Release(l)
                    /\ wslog' = Append(wslog, [proc |-> p, before |-> <<>>, attempts |-> <<>>,
                                               done |-> TRUE, after |-> <<>>])
               ELSE /\ connections' = connections
                    /\ procs' = [ps EXCEPT ![p].pc = "send", ![p].idx = 1,
                                           ![p].ws = connections[1]]
                    /\ lock' = l
                    /\ wslog' = Append(wslog, [proc |-> p, before |-> connections,
                                               attempts |-> <<>>, done |-> FALSE, after |-> <<>>])

\* call p of the calls ps reaches async with self._lock
Arrive(p, ps) ==
    IF LockFree(lock)
    THEN RunLocked(p, ps, [lock EXCEPT !.holder = p])
    ELSE /\ procs' = [ps EXCEPT ![p].pc = "lock", ![p].waited = TRUE]
         /\ lock' = [lock EXCEPT !.waiters = Append(@, p)]
         /\ UNCHANGED <<connections, wslog>>

\* connect(websocket) is called and awaits websocket.accept(); a websocket
\* is handed to connect once
ConnectCall(ws) ==
    /\ Len(procs) < MaxCalls
    /\ \A p \in DOMAIN procs : ~(procs[p].op = "connect" /\ procs[p].ws = ws)
    /\ procs' = Append(procs, WsCall("connect", ws, "accept"))
    /\ UNCHANGED <<connections, lock, wslog>>
    /\ WsOthersUnchanged

\* websocket.accept() returns, or raises and ends the connect call
AcceptEnds(p, ok) ==
    /\ p \in DOMAIN procs
    /\ procs[p].pc = "accept"
    /\ IF ok THEN Arrive(p, procs)
       ELSE /\ procs' = [procs EXCEPT ![p].pc = "failed"]
            /\ UNCHANGED <<connections, lock, wslog>>
    /\ WsOthersUnchanged

\* disconnect(websocket) is called
DisconnectCall(ws) ==
    /\ Len(procs) < MaxCalls
    /\ Arrive(Len(procs) + 1, Append(procs, WsCall("disconnect", ws, "lock")))
    /\ WsOthersUnchanged

\* broadcast(message) is called
BroadcastCall ==
    /\ Len(procs) < MaxCalls
    /\ Arrive(Len(procs) + 1, Append(procs, WsCall("broadcast", 0, "lock")))
    /\ WsOthersUnchanged

\* the lock was released and the call that waited longest takes it
WaiterAcquires ==
    /\ lock.holder = 0
    /\ lock.waiters # <<>>
    /\ RunLocked(Head(lock.waiters), procs, [holder |-> Head(lock.waiters), waiters |-> Tail(lock.waiters)])
    /\ WsOthersUnchanged

\* the pass of the log that call p is making
PassOf(p) == CHOOSE i \in DOMAIN wslog : wslog[i].proc = p

\* ws.send_text(payload) of broadcast call p returns or raises; the loop goes
\* on to the next connection or, at the end of the list, removes the stale ones
SendEnds(p, ok) ==
    /\ p \in DOMAIN procs
    /\ procs[p].pc = "send"
    /\ LET c == procs[p]
           stale == IF ok THEN c.stale ELSE Append(c.stale, c.ws)
           attempts == Append(wslog[PassOf(p)].attempts, [ws |-> c.ws, ok |-> ok])
       IN  IF c.idx + 1 <= Len(connections)
           THEN /\ procs' = [procs EXCEPT ![p].idx = c.idx + 1, ![p].stale = stale,
                                          ![p].ws = connections[c.idx + 1]]
                /\ wslog' = [wslog EXCEPT ![PassOf(p)].attempts = attempts]
                /\ UNCHANGED <<connections, lock>>
           ELSE /\ connections' = RemoveStale(connections, stale)
                /\ procs' = [procs EXCEPT ![p].pc = "done", ![p].stale = stale]
                /\ lock' = Release(lock)
                /\ wslog' = [wslog EXCEPT ![PassOf(p)].attempts = attempts,
                                          ![PassOf(p)].done = TRUE,
                                          ![PassOf(p)].after = RemoveStale(connections, stale)]
    /\ WsOthersUnchanged

NextWs ==
    \/ \E ws \in Clients : ConnectCall(ws)
    \/ \E p \in 1..MaxCalls, ok \in BOOLEAN : AcceptEnds(p, ok)
    \/ \E ws \in Clients : DisconnectCall(ws)
    \/ BroadcastCall
    \/ WaiterAcquires
    \/ \E p \in 1..MaxCalls, ok \in BOOLEAN : SendEnds(p, ok)

SpecWs == InitWs /\ [][NextWs]_vars

----------------------------------------------------------------------------
(* DeviceService.  A host is the map the network-scanner parser builds; an   *)
(* absent key and an empty string are both written "", as the code tests    *)
(* them for truth only.  A device's id is its position in the table.        *)

Host(status, ipv4, ipv6, mac, vendor, hostname) ==
    [status |-> status, ipv4 |-> ipv4, ipv6 |-> ipv6, mac |-> mac, vendor |-> vendor,
     hostname |-> hostname, os |-> "", ports |-> <<>>]

PortData(port, protocol, state, service) ==
    [port |-> port, protocol |-> protocol, state |-> state, service |-> service, version |-> ""]

BusEventOf(type, source, id) == [type |-> type, source |-> source, id |-> id]

\* _find_device: select ... where ip_address == ip OR (mac_address == mac, when
\* mac is given); scalar_one_or_none raises MultipleResultsFound on two rows
FindDevice(tbl, ip, mac) ==
    LET found == {i \in DOMAIN tbl :
                     tbl[i].ip_address = ip \/ (mac # "" /\ tbl[i].mac_address = mac)}
    IN  [raised |-> Cardinality(found) > 1, found |-> found]

\* a merge that adopts whatever comes in
MergeFieldOverwrite(existing, incoming) == incoming

\* if incoming and not device.field: device.field = incoming
MergeField(existing, incoming) ==
    IF incoming # "" /\ existing = "" THEN incoming ELSE existing

\* _upsert_port: the port of the same number and protocol is updated, else one is added
UpsertPort(ports, port_data) ==
    LET same == {i \in DOMAIN ports : ports[i].port_number = port_data.port
                                      /\ ports[i].protocol = port_data.protocol}
    IN  IF same = {}
        THEN Append(ports, [port_number |-> port_data.port, protocol |-> port_data.protocol,
                            state |-> port_data.state, service_name |-> port_data.service,
                            service_version |-> port_data.version])
        ELSE LET i == CHOOSE k \in same : \A j \in same : k <= j
             IN  [ports EXCEPT ![i].state = port_data.state,
                               ![i].service_name = IF port_data.service # "" THEN port_data.service ELSE @,
                               ![i].service_version = IF port_data.version # "" THEN port_data.version ELSE @]

RECURSIVE UpsertPorts(_, _)
UpsertPorts(ports, port_list) ==
    IF port_list = <<>> THEN ports
    ELSE UpsertPorts(UpsertPort(ports, Head(port_list)), Tail(port_list))

\* a host map without the key status
NoStatus == "<no status>"

\* host_data.get("status", default)
StatusOr(host, default) == IF host.status = NoStatus THEN default ELSE host.status

\* Device(...) of the create branch: the reported status is taken as it is
NewDevice(id, host, t) ==
    [id |-> id, ip_address |-> host.ipv4, mac_address |-> host.mac, hostname |-> host.hostname,
     vendor |-> host.vendor, status |-> StatusOr(host, "online"), os_family |-> "",
     ports |-> <<>>,
     first_seen |-> t, last_seen |-> t]

\* the merge branch
MergeDevice(device, host, t) ==
    [device EXCEPT !.mac_address = MergeField(@, host.mac),
                   !.hostname = MergeField(@, host.hostname),
                   !.vendor = MergeField(@, host.vendor),
                   !.last_seen = t,
                   !.status = StatusOr(host, @)]

\* upsert_from_scan up to its flush: the table after it and the event it will publish
UpsertFromScan(tbl, host, t) ==
    LET f == FindDevice(tbl, host.ipv4, host.mac)
    IN  IF f.raised THEN [raised |-> TRUE, devices |-> tbl, id |-> 0, event |-> "none"]
        ELSE LET id == IF f.found = {} THEN Len(tbl) + 1 ELSE CHOOSE i \in f.found : TRUE
                 base == IF f.found = {} THEN NewDevice(id, host, t)
                         ELSE MergeDevice(tbl[id], host, t)
                 device == [base EXCEPT !.os_family = IF host.os # "" THEN host.os ELSE @,
                                        !.ports = UpsertPorts(@, host.ports)]
             IN  [raised |-> FALSE,
                  devices |-> IF f.found = {} THEN Append(tbl, device)
                              ELSE [tbl EXCEPT ![id] = device],
                  id |-> id,
                  event |-> IF f.found = {} THEN "device.discovered" ELSE "device.updated"]

----------------------------------------------------------------------------
(* ScanService on one session.  A create_scan call is suspended in a flush, *)
(* in a publish, in adapter.execute or in upsert_from_scan; a flush or a    *)
(* publish may raise.  The clock stands still while the scans run.          *)

ToolStatuses == {"available", "unavailable", "running", "error", "unknown"}

ScanTools == {"nmap", "zap"}

AdapterOf(status, detect, start) == [status |-> status, detect |-> detect, start |-> start]

\* tool_info(): a fresh descriptor built from the adapter's own _status
ToolInfo(adapter) == [status |-> adapter.status]

\* a check that lets a tool of unknown status through
ToolUsableOrUnknown(reg, tool) ==
    tool \in DOMAIN reg /\ ToolInfo(reg[tool]).status \in {"available", "unknown"}

\* create_scan goes on: the tool is registered and its status is available
ToolUsable(reg, tool) ==
    tool \in DOMAIN reg /\ ToolInfo(reg[tool]).status = "available"

\* _map_scan_type_to_task
MapScanTypeToTask(scan_type, tool) ==
    CASE scan_type = "network" /\ tool = "nmap" -> "quick_scan"
      [] scan_type = "vulnerability" /\ tool = "nmap" -> "vuln_scan"
      [] scan_type = "vulnerability" /\ tool = "openvas" -> "full_scan"
      [] scan_type = "traffic" /\ tool = "tshark" -> "capture"
      [] scan_type = "malware" /\ tool = "clamav" -> "scan"
      [] OTHER -> "quick_scan"

HostA == Host("up", "10.0.0.5", "", "", "", "")
HostBM == Host("up", "10.0.0.6", "", "AA:BB", "Acme", "router.local")
HostAM == Host("up", "10.0.0.5", "", "AA:BB", "", "")

ScanHosts == {HostA, HostBM, HostAM}

HostLists == UNION {[1..n -> ScanHosts] : n \in 0..MaxHosts}

\* what adapter.execute returns: a map with the key error, or a map of hosts
ExecuteResults ==
    {[has_error |-> TRUE, error |-> "scan timed out", hosts |-> <<>>]}
        \cup {[has_error |-> FALSE, error |-> "", hosts |-> hs] : hs \in HostLists}

TerminalStatuses == {"completed", "failed", "cancelled"}

\* Scan(status="pending", ...); flushed is the status the last successful
\* flush wrote, trail the statuses the record was given, in order
NewScan(id, tool) ==
    [id |-> id, tool |-> tool, status |-> "pending", flushed |-> "none", progress |-> 0,
     started_at |-> -1, completed_at |-> -1, error_message |-> "", result_summary |-> -1,
     results |-> <<>>, devices_found |-> 0, cancels |-> 0, trail |-> <<"pending">>]

SetStatus(scan, status) == [scan EXCEPT !.status = status, !.trail = Append(@, status)]

\* the except branch up to its flush
ScanFailedWith(scan, text, t) ==
    [SetStatus(scan, "failed") EXCEPT !.error_message = text, !.completed_at = t]

\* lines 106-107 after the result was taken in
ScanFinished(scan, t) == [scan EXCEPT !.completed_at = t, !.progress = 100]

\* mark is the number of events published before the call began
IdleScanCall ==
    [pc |-> "idle", tool |-> "", task |-> "", scan |-> 0, hosts |-> <<>>, idx |-> 0,
     outcome |-> "none", error |-> "", faults |-> 0, calls |-> 0, mark |-> 0]

InitScan ==
    /\ DedupUnused
    /\ ServiceUnused
    /\ PureUnused
    /\ CorrUnused
    /\ BusUnused
    /\ WsUnused
    /\ scans = <<>>
    /\ devices = <<>>
    /\ published = <<>>
    /\ scall = IdleScanCall
    /\ dcall = <<>>
    /\ OpsUnused
    /\ \E status \in ToolStatuses : adapters = [tool \in {"nmap"} |-> AdapterOf(status, "true", "ok")]
    /\ initlog = <<>>

ScanOthersUnchanged ==
    UNCHANGED <<window, max_size, seen, last, service_vars, pure_vars, corr_last, bus_vars, ws_vars,
                reg_vars, ops_vars, dcall>>

\* the call ends: it returns the scan or raises
ScanCallEnds(c, outcome, error) == [c EXCEPT !.pc = "done", !.outcome = outcome, !.error = error]

\* create_scan(scan_type="network", tool, target) up to its first await
CreateScan(tool) ==
    /\ scall.pc = "idle"
    /\ scall.calls < MaxScans
    /\ LET c == [IdleScanCall EXCEPT !.tool = tool, !.faults = scall.faults,
                                     !.calls = scall.calls + 1, !.mark = Len(published)]
       IN  IF tool \notin DOMAIN adapters
           THEN /\ scall' = ScanCallEnds(c, "raised", "ValueError")
                /\ scans' = scans
           ELSE IF ~ToolUsable(adapters, tool)
           THEN /\ scall' = ScanCallEnds(c, "raised", "RuntimeError")
                /\ scans' = scans
           ELSE /\ scans' = Append(scans, NewScan(Len(scans) + 1, tool))
                /\ scall' = [c EXCEPT !.pc = "flush_pending", !.scan = Len(scans) + 1]
    /\ UNCHANGED <<now, devices, published>>
    /\ ScanOthersUnchanged

\* an await of the try block raised: the except branch runs up to its flush
ScanExcept(text) ==
    /\ scans' = [scans EXCEPT ![scall.scan] = ScanFailedWith(@, text, now)]
    /\ scall' = [scall EXCEPT !.pc = "flush_failed", !.error = text]

\* await self.session.flush() returns or raises
ScanFlush(ok) ==
    /\ scall.pc \in {"flush_pending", "flush_running", "flush_final", "flush_failed"}
    /\ ~ok => scall.faults < MaxScanFaults
    /\ LET c == [scall EXCEPT !.faults = IF ok THEN @ ELSE @ + 1]
           written == [scans EXCEPT ![scall.scan].flushed = scans[scall.scan].status]
       IN  CASE scall.pc = "flush_pending" ->
                  IF ok THEN scans' = written /\ scall' = [c EXCEPT !.pc = "publish_started"]
                  ELSE scans' = scans /\ scall' = ScanCallEnds(c, "raised", "flush")
             [] scall.pc = "flush_running" ->
                  IF ok THEN scans' = written /\ scall' = [c EXCEPT !.pc = "publish_progress"]
                  ELSE /\ scans' = [scans EXCEPT ![scall.scan] = ScanFailedWith(@, "flush", now)]
                       /\ scall' = [c EXCEPT !.pc = "flush_failed", !.error = "flush"]
             [] scall.pc = "flush_final" ->
                  IF ok THEN scans' = written /\ scall' = [c EXCEPT !.pc = "publish_final"]
                  ELSE /\ scans' = [scans EXCEPT ![scall.scan] = ScanFailedWith(@, "flush", now)]
                       /\ scall' = [c EXCEPT !.pc = "flush_failed", !.error = "flush"]
             [] OTHER ->
                  IF ok THEN scans' = written /\ scall' = [c EXCEPT !.pc = "publish_failed"]
                  ELSE scans' = scans /\ scall' = ScanCallEnds(c, "raised", "flush")
    /\ UNCHANGED <<now, devices, published>>
    /\ ScanOthersUnchanged

ScanEvent(type) == BusEventOf(type, "scan_service", scall.scan)

\* await self.event_bus.publish(...) returns or raises
ScanPublish(ok) ==
    /\ scall.pc \in {"publish_started", "publish_progress", "publish_final", "publish_failed"}
    /\ ~ok => scall.faults < MaxScanFaults
    /\ LET c == [scall EXCEPT !.faults = IF ok THEN @ ELSE @ + 1]
       IN  CASE scall.pc = "publish_started" ->
                  IF ok
                  THEN /\ published' = Append(published, ScanEvent("scan.started"))
                       /\ scans' = [scans EXCEPT ![scall.scan] =
                                       [SetStatus(@, "running") EXCEPT !.started_at = now,
                                                                        !.progress = 0]]
                       /\ scall' = [c EXCEPT !.pc = "flush_running"]
                  ELSE /\ published' = published
                       /\ scans' = scans
                       /\ scall' = ScanCallEnds(c, "raised", "publish")
             [] scall.pc = "publish_progress" ->
                  IF ok
                  THEN /\ published' = Append(published, ScanEvent("scan.progress"))
                       /\ scans' = scans
                       /\ scall' = [c EXCEPT !.pc = "execute",
                                             !.task = MapScanTypeToTask("network", scall.tool)]
                  ELSE /\ published' = published
                       /\ scans' = [scans EXCEPT ![scall.scan] = ScanFailedWith(@, "publish", now)]
                       /\ scall' = [c EXCEPT !.pc = "flush_failed", !.error = "publish"]
             [] scall.pc = "publish_final" ->
                  IF ok
                  THEN /\ published' = Append(published,
                                              ScanEvent(IF scans[scall.scan].status = "completed"
                                                        THEN "scan.completed" ELSE "scan.failed"))
                       /\ scans' = scans
                       /\ scall' = ScanCallEnds(c, "returned", "")
                  ELSE /\ published' = published
                       /\ scans' = [scans EXCEPT ![scall.scan] = ScanFailedWith(@, "publish", now)]
                       /\ scall' = [c EXCEPT !.pc = "flush_failed", !.error = "publish"]
             [] OTHER ->
                  IF ok
                  THEN /\ published' = Append(published, ScanEvent("scan.failed"))
                       /\ scans' = scans
                       /\ scall' = ScanCallEnds(c, "returned", scall.error)
                  ELSE /\ published' = published
                       /\ scans' = scans
                       /\ scall' = ScanCallEnds(c, "raised", "publish")
    /\ UNCHANGED <<now, devices>>
    /\ ScanOthersUnchanged

\* await adapter.execute(task, params) returns a result map
Execute(result) ==
    /\ scall.pc = "execute"
    /\ IF result.has_error
       THEN /\ scans' = [scans EXCEPT ![scall.scan] =
                            ScanFinished([SetStatus(@, "failed") EXCEPT
                                             !.error_message = result.error], now)]
            /\ scall' = [scall EXCEPT !.pc = "flush_final"]
       ELSE LET taken == [SetStatus(scans[scall.scan], "completed") EXCEPT
                             !.results = result.hosts, !.result_summary = Len(result.hosts)]
            IN  IF result.hosts = <<>>
                THEN /\ scans' = [scans EXCEPT ![scall.scan] =
                                     ScanFinished([taken EXCEPT !.devices_found = 0], now)]
                     /\ scall' = [scall EXCEPT !.pc = "flush_final"]
                ELSE /\ scans' = [scans EXCEPT ![scall.scan] = taken]
                     /\ scall' = [scall EXCEPT !.pc = "upsert", !.hosts = result.hosts, !.idx = 1]
    /\ UNCHANGED <<now, devices, published>>
    /\ ScanOthersUnchanged

\* await adapter.execute(task, params) raises
ExecuteRaises ==
    /\ scall.pc = "execute"
    /\ ScanExcept("execute")
    /\ UNCHANGED <<now, devices, published>>
    /\ ScanOthersUnchanged

\* await self.device_service.upsert_from_scan(host) for the next host: it
\* returns, or it raises in _find_device, in its flush or in its publish and
\* the error is logged; after the last host devices_found is set
UpsertHost(outcome) ==
    /\ scall.pc = "upsert"
    /\ outcome # "ok" => scall.faults < MaxScanFaults
    /\ LET u == UpsertFromScan(devices, scall.hosts[scall.idx], now)
           last_host == scall.idx = Len(scall.hosts)
       IN  /\ devices' = u.devices
           /\ published' = IF u.raised \/ outcome # "ok" THEN published
                           ELSE Append(published, BusEventOf(u.event, "device_service", u.id))
           /\ scans' = IF last_host
                       THEN [scans EXCEPT ![scall.scan] =
                                ScanFinished([@ EXCEPT !.devices_found = Len(scall.hosts)], now)]
                       ELSE scans
           /\ scall' = [scall EXCEPT !.pc = IF last_host THEN "flush_final" ELSE "upsert",
                                     !.idx = @ + 1,
                                     !.faults = IF outcome = "ok" THEN @ ELSE @ + 1]
    /\ UNCHANGED now
    /\ ScanOthersUnchanged

\* cancel_scan(scan_id) on the same session
CancelScan(id) ==
    /\ id \in DOMAIN scans
    /\ scans[id].cancels < MaxCancels
    /\ scans' = [scans EXCEPT ![id] =
                    IF scans[id].status \in {"pending", "running"}
                    THEN [SetStatus(@, "cancelled") EXCEPT !.completed_at = now,
                                                           !.flushed = "cancelled",
                                                           !.cancels = @ + 1]
                    ELSE [@ EXCEPT !.cancels = @ + 1]]
    /\ UNCHANGED <<now, devices, published, scall>>
    /\ ScanOthersUnchanged

\* the caller has the outcome of the call; the service is idle again
ScanReturn ==
    /\ scall.pc = "done"
    /\ scall' = [IdleScanCall EXCEPT !.faults = scall.faults, !.calls = scall.calls]
    /\ UNCHANGED <<now, scans, devices, published>>
    /\ ScanOthersUnchanged

\* create_scan calls one after the other, with faults of the store and the bus
\* and with cancel_scan calls at any time
NextScan ==
    \/ \E tool \in ScanTools : CreateScan(tool)
    \/ \E ok \in BOOLEAN : ScanFlush(ok)
    \/ \E ok \in BOOLEAN : ScanPublish(ok)
    \/ \E result \in ExecuteResults : Execute(result)
    \/ ExecuteRaises
    \/ \E outcome \in {"ok", "flush", "publish"} : UpsertHost(outcome)
    \/ \E id \in 1..MaxScans : CancelScan(id)
    \/ ScanReturn

SpecScan == InitScan /\ [][NextScan]_vars

\* create_scan calls one after the other on a store and a bus that never raise
NextScanPlain ==
    \/ \E tool \in ScanTools : CreateScan(tool)
    \/ ScanFlush(TRUE)
    \/ ScanPublish(TRUE)
    \/ \E result \in ExecuteResults : Execute(result)
    \/ ExecuteRaises
    \/ UpsertHost("ok")
    \/ ScanReturn

SpecScanPlain == InitScan /\ [][NextScanPlain]_vars

----------------------------------------------------------------------------
(* DeviceService and the availability sweep of MonitoringService on a device *)
(* table on their own: upserts of hosts, sweeps and ticks of the clock.      *)

\* _parse_host: the state attribute of the status element as it is, unknown
\* when the element or the attribute is missing
ParseStatus(state) == IF state = "none" THEN "unknown" ELSE state

HostBDown == Host(ParseStatus("down"), "10.0.0.6", "", "", "", "")
HostV6a == Host(ParseStatus("up"), "", "fe80::1", "", "", "")
HostV6b == Host(ParseStatus("none"), "", "fe80::2", "", "", "")
HostPlain == Host(NoStatus, "10.0.0.7", "", "", "", "")
HostSsh == [Host(ParseStatus("up"), "10.0.0.7", "", "", "", "") EXCEPT
               !.os = "Linux", !.ports = <<PortData(22, "tcp", "open", "ssh")>>]

\* the hosts the parser builds, and one of another source that names no status
DeviceHosts == {HostA, HostBM, HostAM, HostBDown, HostV6a, HostV6b, HostPlain, HostSsh}

IdleDeviceCall ==
    [op |-> "none", host |-> <<>>, raised |-> FALSE, id |-> 0, event |-> "none", calls |-> 0,
     again |-> FALSE, upserted |-> {}]

InitDevices ==
    /\ DedupUnused
    /\ ServiceUnused
    /\ PureUnused
    /\ CorrUnused
    /\ BusUnused
    /\ WsUnused
    /\ RegUnused
    /\ OpsUnused
    /\ scans = <<>>
    /\ scall = <<>>
    /\ devices = <<>>
    /\ published = <<>>
    /\ dcall = IdleDeviceCall

DevicesOthersUnchanged ==
    UNCHANGED <<window, max_size, seen, last, service_vars, pure_vars, corr_last, bus_vars, ws_vars,
                reg_vars, ops_vars, scans, scall>>

\* upsert_from_scan(host) from its call to its return or raise; upserted
\* keeps the hosts whose upsert returned, each with the device it returned,
\* and again tells that an upsert of this host had returned before
Upsert(host) ==
    /\ dcall.calls < MaxUpserts
    /\ LET u == UpsertFromScan(devices, host, now)
       IN  /\ devices' = u.devices
           /\ published' = IF u.raised THEN published
                           ELSE Append(published, BusEventOf(u.event, "device_service", u.id))
           /\ dcall' = [op |-> "upsert", host |-> host, raised |-> u.raised, id |-> u.id,
                        event |-> u.event, calls |-> dcall.calls + 1,
                        again |-> \E p \in dcall.upserted : p[1] = host,
                        upserted |-> IF u.raised THEN dcall.upserted
                                     ELSE dcall.upserted \cup {<<host, u.id>>}]
    /\ UNCHANGED now
    /\ DevicesOthersUnchanged

RECURSIVE OfflineEvents(_, _)
OfflineEvents(tbl, stale) ==
    IF stale = {} THEN <<>>
    ELSE LET i == CHOOSE k \in stale : \A j \in stale : k <= j
         IN  <<BusEventOf("device.offline", "monitoring_service", i)>>
                 \o OfflineEvents(tbl, stale \ {i})

\* a selection by last_seen alone
StaleDevicesAnyStatus(tbl, t, threshold) ==
    {i \in DOMAIN tbl : tbl[i].last_seen < t - threshold}

\* select(Device).where(Device.status == "online", Device.last_seen < threshold)
StaleDevices(tbl, t, threshold) ==
    {i \in DOMAIN tbl : tbl[i].status = "online" /\ tbl[i].last_seen < t - threshold}

\* the devices after the loop over the stale ones
MarkOffline(tbl, stale) ==
    [i \in DOMAIN tbl |-> IF i \in stale THEN [tbl[i] EXCEPT !.status = "offline"] ELSE tbl[i]]

\* check_device_availability(threshold): the devices that are online and were
\* last seen before now - threshold become offline
Sweep(threshold) ==
    /\ LET stale == StaleDevices(devices, now, threshold)
       IN  /\ devices' = MarkOffline(devices, stale)
           /\ published' = published \o OfflineEvents(devices, stale)
           /\ dcall' = [dcall EXCEPT !.op = "sweep", !.host = <<>>, !.raised = FALSE,
                                     !.id = Cardinality(stale), !.event = "none",
                                     !.again = FALSE]
    /\ UNCHANGED now
    /\ DevicesOthersUnchanged

\* the clock advances
DeviceTick ==
    /\ now < MaxTime
    /\ now' = now + 1
    /\ UNCHANGED <<devices, published, dcall>>
    /\ DevicesOthersUnchanged

NextDevices ==
    \/ \E host \in DeviceHosts : Upsert(host)
    \/ \E threshold \in 0..MaxThreshold : Sweep(threshold)
    \/ DeviceTick

SpecDevices == InitDevices /\ [][NextDevices]_vars

----------------------------------------------------------------------------
(* AdapterRegistry.init_all.  An adapter is its _status together with what  *)
(* its detect does (finds the tool, does not, raises) and what its start   *)
(* does (returns, raises); detect sets _status as the adapters do.          *)

\* the names under which adapters register, in the order of registration
ToolNames == <<"nmap", "tshark", "clamav", "openvas", "fail2ban">>

Registered(n) == {ToolNames[k] : k \in 1..n}

\* info = adapter.tool_info(); info.status = status: the descriptor is built
\* anew by every tool_info() call, the adapter keeps its _status
AssignInfoStatus(adapter, status) == adapter

\* the adapter after its detect() returned or raised
AfterDetect(adapter) ==
    CASE adapter.detect = "true" -> [adapter EXCEPT !.status = "available"]
      [] adapter.detect = "false" -> [adapter EXCEPT !.status = "unavailable"]
      [] OTHER -> adapter

\* start is called after every detect that did not raise
StartAfterAnyReturn(detected) == detected # "raise"

\* if available: await adapter.start()
StartAfter(detected) == detected = "true"

IdleInit ==
    [pc |-> "idle", idx |-> 0, results |-> <<>>, returned |-> <<>>, initialized |-> FALSE,
     calls |-> <<>>, inits |-> 0]

InitRegistry ==
    /\ DedupUnused
    /\ ServiceUnused
    /\ PureUnused
    /\ CorrUnused
    /\ BusUnused
    /\ WsUnused
    /\ ScanUnused
    /\ OpsUnused
    /\ \E n \in 0..MaxAdapters :
           adapters \in [Registered(n) -> {AdapterOf("unknown", d, st) :
                                              d \in {"true", "false", "raise"},
                                              st \in {"ok", "raise"}}]
    /\ initlog = IdleInit

RegOthersUnchanged ==
    UNCHANGED <<dedup_vars, service_vars, pure_vars, corr_last, bus_vars, ws_vars, scan_vars,
                ops_vars>>

NumRegistered == Cardinality(DOMAIN adapters)

\* results[name] = value and the loop goes to the next adapter, or ends:
\* _initialized = True; return results
NextAdapter(log, name, value) ==
    LET results == [n \in DOMAIN log.results \cup {name} |->
                       IF n = name THEN value ELSE log.results[n]]
    IN  IF log.idx = NumRegistered
        THEN [log EXCEPT !.pc = "done", !.results = results, !.returned = results,
                         !.initialized = TRUE]
        ELSE [log EXCEPT !.pc = "detect", !.results = results, !.idx = @ + 1]

\* init_all() up to its first await, or to its return when there is none
InitAll ==
    /\ initlog.pc = "idle"
    /\ initlog.inits < MaxInits
    /\ LET log == [initlog EXCEPT !.inits = @ + 1]
       IN  IF initlog.initialized
           THEN initlog' = [log EXCEPT !.pc = "done",
                                       !.returned = [n \in DOMAIN adapters |->
                                                        ToolInfo(adapters[n]).status = "available"]]
           ELSE IF NumRegistered = 0
           THEN initlog' = [log EXCEPT !.pc = "done", !.results = <<>>, !.returned = <<>>,
                                       !.initialized = TRUE]
           ELSE initlog' = [log EXCEPT !.pc = "detect", !.idx = 1, !.results = <<>>]
    /\ UNCHANGED adapters
    /\ RegOthersUnchanged

\* await adapter.detect() ends for the adapter the loop stands at
DetectEnds ==
    /\ initlog.pc = "detect"
    /\ LET name == ToolNames[initlog.idx]
           detected == adapters[name].detect
           log == [initlog EXCEPT !.calls = Append(@, [name |-> name, call |-> "detect",
                                                       outcome |-> detected])]
       IN  IF StartAfter(detected)
           THEN /\ adapters' = [adapters EXCEPT ![name] = AfterDetect(@)]
                /\ initlog' = [log EXCEPT !.pc = "start",
                                          !.calls = Append(@, [name |-> name, call |-> "start",
                                                               outcome |-> "called"])]
           ELSE /\ adapters' = [adapters EXCEPT ![name] =
                                   AssignInfoStatus(AfterDetect(@),
                                                    IF detected = "raise" THEN "error"
                                                    ELSE "unavailable")]
                /\ initlog' = NextAdapter(log, name, FALSE)
    /\ RegOthersUnchanged

\* await adapter.start() ends
StartEnds ==
    /\ initlog.pc = "start"
    /\ LET name == ToolNames[initlog.idx]
           started == adapters[name].start = "ok"
       IN  /\ adapters' = [adapters EXCEPT ![name] =
                              AssignInfoStatus(@, IF started THEN "available" ELSE "error")]
           /\ initlog' = NextAdapter(initlog, name, started)
    /\ RegOthersUnchanged

\* the caller has the map init_all returned
InitReturn ==
    /\ initlog.pc = "done"
    /\ initlog' = [initlog EXCEPT !.pc = "idle"]
    /\ UNCHANGED adapters
    /\ RegOthersUnchanged

NextRegistry ==
    \/ InitAll
    \/ DetectEnds
    \/ StartEnds
    \/ InitReturn

SpecRegistry == InitRegistry /\ [][NextRegistry]_vars

----------------------------------------------------------------------------
(* AdapterRegistry.health_check_all and shutdown_all.  What an adapter's     *)
(* health_check or stop does is chosen when the call on it ends.             *)

\* the loop over the adapters ends with the first adapter that raises
LoopEndsOnRaise(idx, n, outcome) == IF outcome = "raise" THEN n + 1 ELSE idx + 1

\* the try is inside the loop: after an adapter, whatever it did, comes the next
LoopNext(idx, n, outcome) == idx + 1

\* health_check: the status found is kept in _status, except unavailable,
\* which is returned for a tool without binary
AfterHealthCheck(adapter, outcome) ==
    IF outcome \in {"raise", "unavailable"} THEN adapter ELSE [adapter EXCEPT !.status = outcome]

IdleRegOp ==
    [op |-> "none", pc |-> "idle", idx |-> 0, results |-> <<>>, calls |-> <<>>, ncalls |-> 0]

InitRegOps ==
    /\ DedupUnused
    /\ ServiceUnused
    /\ PureUnused
    /\ CorrUnused
    /\ BusUnused
    /\ WsUnused
    /\ ScanUnused
    /\ \E n \in 0..MaxAdapters :
           adapters \in [Registered(n) -> {AdapterOf(st, "true", "ok") :
                                              st \in {"available", "unavailable"}}]
    /\ initlog = <<>>
    /\ regops = IdleRegOp
    /\ sched = <<>>
    /\ mon = <<>>
    /\ proc = <<>>
    /\ pcalls = <<>>

RegOpsOthersUnchanged ==
    UNCHANGED <<dedup_vars, service_vars, pure_vars, corr_last, bus_vars, ws_vars, scan_vars,
                initlog, sched, mon, proc, pcalls>>

\* health_check_all() or shutdown_all() up to its first await
RegOpBegins(op) ==
    /\ regops.pc = "idle"
    /\ regops.ncalls < MaxRegCalls
    /\ regops' = [IdleRegOp EXCEPT !.op = op, !.ncalls = regops.ncalls + 1,
                                   !.pc = IF NumRegistered = 0 THEN "done" ELSE "await",
                                   !.idx = IF NumRegistered = 0 THEN 0 ELSE 1]
    /\ UNCHANGED adapters
    /\ RegOpsOthersUnchanged

HealthCheckAll == RegOpBegins("health")

ShutdownAll == RegOpBegins("shutdown")

\* the log after the call on the adapter the loop stands at ended
RegOpStep(log, name, outcome, results) ==
    LET next == LoopNext(log.idx, NumRegistered, outcome)
    IN  [log EXCEPT !.calls = Append(@, [name |-> name, outcome |-> outcome]),
                    !.results = results,
                    !.idx = next,
                    !.pc = IF next > NumRegistered THEN "done" ELSE "await"]

\* await adapter.health_check() returns a status or raises
HealthEnds(outcome) ==
    /\ regops.op = "health"
    /\ regops.pc = "await"
    /\ LET name == ToolNames[regops.idx]
           status == IF outcome = "raise" THEN "error" ELSE outcome
           results == [n \in DOMAIN regops.results \cup {name} |->
                          IF n = name THEN status ELSE regops.results[n]]
       IN  /\ adapters' = [adapters EXCEPT ![name] = AfterHealthCheck(@, outcome)]
           /\ regops' = RegOpStep(regops, name, outcome, results)
    /\ RegOpsOthersUnchanged

\* await adapter.stop() returns or raises
StopEnds(outcome) ==
    /\ regops.op = "shutdown"
    /\ regops.pc = "await"
    /\ regops' = RegOpStep(regops, ToolNames[regops.idx], outcome, regops.results)
    /\ UNCHANGED adapters
    /\ RegOpsOthersUnchanged

\* the caller has what the call returned
RegOpReturn ==
    /\ regops.pc = "done"
    /\ regops' = [regops EXCEPT !.pc = "idle"]
    /\ UNCHANGED adapters
    /\ RegOpsOthersUnchanged

NextRegOps ==
    \/ HealthCheckAll
    \/ ShutdownAll
    \/ \E outcome \in ToolStatuses \cup {"raise"} : HealthEnds(outcome)
    \/ \E outcome \in {"ok", "raise"} : StopEnds(outcome)
    \/ RegOpReturn

SpecRegOps == InitRegOps /\ [][NextRegOps]_vars

----------------------------------------------------------------------------
(* Scheduler.  A job's id is the position of its add_job call.  infos is     *)
(* self._jobs (a removed job keeps its place, marked absent), aps the jobs   *)
(* the scheduler library holds, each with the variables its _run_job closure *)
(* captured.  A fire runs _run_job from the handler's call to its end.       *)

TaskTypes == {"device_availability_check", "tool_health_check"}

TaskParams == {<<>>, [offline_threshold_minutes |-> 15]}

TriggerTypes == {"cron", "interval", "date"}

\* a closure that reads variables shared by all add_job calls
CapturedByLatest(aps, job) == aps[Len(aps)].captured

\* _run_job is defined inside add_job: it reads the task_type and
\* task_params of the call that defined it
CapturedBy(aps, job) == aps[job].captured

NoFire == [job |-> 0, task_type |-> "", task_params |-> <<>>, outcome |-> "none",
           registered |-> FALSE, enabled |-> FALSE]

InitSched ==
    /\ DedupUnused
    /\ ServiceUnused
    /\ PureUnused
    /\ CorrUnused
    /\ BusUnused
    /\ WsUnused
    /\ ScanUnused
    /\ RegUnused
    /\ regops = <<>>
    /\ mon = <<>>
    /\ proc = <<>>
    /\ pcalls = <<>>
    /\ sched = [infos |-> <<>>, aps |-> <<>>, handler |-> FALSE, running |-> FALSE,
                last |-> NoFire, fires |-> 0, errors |-> 0, refused |-> 0]

SchedOthersUnchanged ==
    UNCHANGED <<dedup_vars, service_vars, pure_vars, corr_last, bus_vars, ws_vars, scan_vars,
                reg_vars, regops, mon, proc, pcalls>>

\* set_task_handler(handler)
SetTaskHandler ==
    /\ ~sched.handler
    /\ sched' = [sched EXCEPT !.handler = TRUE]
    /\ SchedOthersUnchanged

\* start() with settings.scheduler.enabled
SchedStart ==
    /\ ~sched.running
    /\ sched' = [sched EXCEPT !.running = TRUE]
    /\ SchedOthersUnchanged

\* add_job(name, trigger_type, trigger_args, task_type, task_params): a
\* trigger type other than cron and interval raises ValueError
AddJob(trigger_type, task_type, task_params) ==
    /\ Len(sched.infos) < MaxJobs
    /\ IF trigger_type \notin {"cron", "interval"}
       THEN /\ sched.refused = 0
            /\ sched' = [sched EXCEPT !.refused = 1]
       ELSE sched' = [sched EXCEPT
                !.aps = Append(@, [present |-> TRUE, paused |-> FALSE,
                                    captured |-> [task_type |-> task_type,
                                                  task_params |-> task_params]]),
                !.infos = Append(@, [id |-> Len(sched.infos) + 1, present |-> TRUE,
                                      task_type |-> task_type,
                                      task_params |-> task_params, enabled |-> TRUE])]
    /\ SchedOthersUnchanged

\* remove_job(job_id) of a job in self._jobs
RemoveJob(job) ==
    /\ job \in DOMAIN sched.infos
    /\ sched.infos[job].present
    /\ sched' = [sched EXCEPT !.aps[job].present = FALSE, !.infos[job].present = FALSE]
    /\ SchedOthersUnchanged

\* pause_job(job_id) or resume_job(job_id) of a job in self._jobs
PauseJob(job, paused) ==
    /\ job \in DOMAIN sched.infos
    /\ sched.infos[job].present
    /\ sched.infos[job].enabled = paused
    /\ sched' = [sched EXCEPT !.aps[job].paused = paused, !.infos[job].enabled = ~paused]
    /\ SchedOthersUnchanged

\* the running scheduler library fires a job it holds and has not paused:
\* _run_job calls the handler, if one is set, and suppresses its exception
Fire(job, outcome) ==
    /\ sched.running
    /\ sched.fires < MaxFires
    /\ job \in DOMAIN sched.aps
    /\ sched.aps[job].present
    /\ ~sched.aps[job].paused
    /\ sched.handler
    /\ LET captured == CapturedBy(sched.aps, job)
       IN  sched' = [sched EXCEPT
                !.last = [job |-> job, task_type |-> captured.task_type,
                          task_params |-> captured.task_params, outcome |-> outcome,
                          registered |-> sched.infos[job].present,
                          enabled |-> sched.infos[job].enabled],
                !.fires = @ + 1,
                !.errors = IF outcome = "raise" THEN @ + 1 ELSE @]
    /\ SchedOthersUnchanged

\* a fire while no handler is set: _run_job does nothing
FireUnhandled(job) ==
    /\ sched.running
    /\ sched.fires < MaxFires
    /\ job \in DOMAIN sched.aps
    /\ sched.aps[job].present
    /\ ~sched.aps[job].paused
    /\ ~sched.handler
    /\ sched' = [sched EXCEPT !.fires = @ + 1]
    /\ SchedOthersUnchanged

NextSched ==
    \/ SetTaskHandler
    \/ SchedStart
    \/ \E trigger_type \in TriggerTypes, task_type \in TaskTypes, task_params \in TaskParams :
           AddJob(trigger_type, task_type, task_params)
    \/ \E job \in 1..MaxJobs : RemoveJob(job)
    \/ \E job \in 1..MaxJobs, paused \in BOOLEAN : PauseJob(job, paused)
    \/ \E job \in 1..MaxJobs, outcome \in {"ok", "raise"} : Fire(job, outcome)
    \/ \E job \in 1..MaxJobs : FireUnhandled(job)

SpecSched == InitSched /\ [][NextSched]_vars

----------------------------------------------------------------------------
(* MonitoringService and the task handler of the application.  mon holds   *)
(* the _previous_tool_status of a service that lives on (previous), the     *)
(* _tool_status_cache of the application (cache), what the tools reported   *)
(* at the last tool_health_check fire (health), and the last call: the      *)
(* previous map it started from, the results, the events it published, and  *)
(* what it returned.  A ToolStatus member is the pair of the enum's name    *)
(* and its value.                                                            *)

MonTools == <<"nmap", "zeek">>

\* what the health_check of an adapter that runs its binary does: it returns
\* one of these statuses or it raises
HealthOutcomes == {"available", "unavailable", "error", "raise"}

\* ToolStatus(value)
ToolStatusOf(value) == <<"ToolStatus", value>>

\* status.value
StatusValue(status) == status[2]

\* registry.health_check_all(): a raising health check counts as ERROR
HealthResults(outcomes) ==
    [t \in DOMAIN outcomes |->
        ToolStatusOf(IF outcomes[t] = "raise" THEN "error" ELSE outcomes[t])]

ToolEvent(type, tool, status, previous) ==
    [type |-> type, source |-> "monitoring_service", tool |-> tool,
     status |-> StatusValue(status), previous_status |-> StatusValue(previous)]

\* the events of the loop over results from the k-th tool on
RECURSIVE ToolEvents(_, _, _)
ToolEvents(previous, results, k) ==
    IF k > Len(MonTools) THEN <<>>
    ELSE LET tool == MonTools[k]
             rest == ToolEvents(previous, results, k + 1)
         IN  IF tool \in DOMAIN previous /\ previous[tool] # results[tool]
             THEN <<ToolEvent(IF results[tool] = ToolStatusOf("available")
                              THEN "tool.online" ELSE "tool.offline",
                              tool, results[tool], previous[tool])>> \o rest
             ELSE rest

\* a check that leaves _previous_tool_status as it was
CheckToolHealthForgetful(previous, outcomes) ==
    [events |-> ToolEvents(previous, HealthResults(outcomes), 1),
     previous |-> previous,
     returned |-> [t \in DOMAIN outcomes |-> StatusValue(HealthResults(outcomes)[t])]]

\* check_tool_health() of a service whose _previous_tool_status is previous
CheckToolHealthOf(previous, outcomes) ==
    LET results == HealthResults(outcomes)
    IN  [events |-> ToolEvents(previous, results, 1),
         previous |-> [t \in DOMAIN previous \cup DOMAIN results |->
                          IF t \in DOMAIN results THEN results[t] ELSE previous[t]],
         returned |-> [t \in DOMAIN results |-> StatusValue(results[t])]]

\* a handler that builds the service and restores nothing
RestoredNothing(cache) == <<>>

\* monitoring._previous_tool_status = {k: ToolStatus(v) for k, v in cache.items()}
RestoredPrevious(cache) == [t \in DOMAIN cache |-> ToolStatusOf(cache[t])]

\* _tool_status_cache.clear(); update({k: v.value for k, v in previous.items()})
SavedCache(previous) == [t \in DOMAIN previous |-> StatusValue(previous[t])]

ToolOutcomes == [{MonTools[k] : k \in 1..Len(MonTools)} -> HealthOutcomes]

NoMonCall ==
    [op |-> "none", before |-> <<>>, results |-> <<>>, events |-> <<>>, returned |-> <<>>,
     threshold |-> -1, repeat |-> FALSE, after |-> "none"]

IdleMon == [previous |-> <<>>, cache |-> <<>>, health |-> <<>>, last |-> NoMonCall]

MonIps == <<"10.0.1.1", "10.0.1.2", "10.0.1.3">>

\* the row of a device that an upsert at time t created with the status
\* given or, for a host that names none, online, and that a sweep may have
\* set offline since
DeviceRow(id, status, t) ==
    [NewDevice(id, Host(NoStatus, MonIps[id], "", "", "", ""), t) EXCEPT !.status = status]

DeviceTables(t) ==
    UNION {[1..n -> {"online", "offline", "up"} \X (0..t)] : n \in 0..MaxDevices}

MonUnused ==
    /\ window = 0
    /\ max_size = 1
    /\ seen = <<>>
    /\ last = <<>>
    /\ ServiceUnused
    /\ PureUnused
    /\ CorrUnused
    /\ BusUnused
    /\ WsUnused
    /\ RegUnused
    /\ scans = <<>>
    /\ scall = <<>>
    /\ published = <<>>
    /\ dcall = <<>>
    /\ regops = <<>>
    /\ sched = <<>>
    /\ proc = <<>>
    /\ pcalls = <<>>

\* a device table that upserts left behind some time before MaxThreshold
InitSweep ==
    /\ MonUnused
    /\ mon = IdleMon
    /\ \E t \in 0..MaxThreshold :
          \E tbl \in DeviceTables(t) :
              /\ now = t
              /\ devices = [i \in DOMAIN tbl |-> DeviceRow(i, tbl[i][1], tbl[i][2])]

\* the application after startup, with two devices last seen at time 0
InitMon ==
    /\ MonUnused
    /\ mon = IdleMon
    /\ now = MaxThreshold
    /\ devices = <<DeviceRow(1, "online", 0), DeviceRow(2, "up", 0)>>

MonOthersUnchanged ==
    UNCHANGED <<window, max_size, seen, last, service_vars, pure_vars, corr_last, bus_vars, ws_vars,
                reg_vars, scans, scall, published, dcall, regops, sched, proc, pcalls>>

\* check_tool_health() of the service that lives on
CheckToolHealth(outcomes) ==
    /\ LET r == CheckToolHealthOf(mon.previous, outcomes)
       IN  mon' = [mon EXCEPT
                !.previous = r.previous,
                !.last = [NoMonCall EXCEPT !.op = "check_tool_health", !.before = mon.previous,
                                           !.results = HealthResults(outcomes),
                                           !.events = r.events, !.returned = r.returned,
                                           !.after = mon.last.op]]
    /\ UNCHANGED <<now, devices>>
    /\ MonOthersUnchanged

\* task_handler("tool_health_check", params): a new MonitoringService gets
\* the statuses of the cache, checks, and the cache gets its statuses
ToolHealthCheck(outcomes) ==
    /\ LET before == RestoredPrevious(mon.cache)
           r == CheckToolHealthOf(before, outcomes)
       IN  mon' = [mon EXCEPT
                !.cache = SavedCache(r.previous),
                !.health = HealthResults(outcomes),
                !.last = [NoMonCall EXCEPT !.op = "tool_health_check", !.before = before,
                                           !.results = HealthResults(outcomes),
                                           !.events = r.events, !.returned = r.returned,
                                           !.after = mon.last.op]]
    /\ UNCHANGED <<now, devices>>
    /\ MonOthersUnchanged

\* task_handler("device_availability_check", params): a new MonitoringService
\* runs check_device_availability(threshold).  repeat tells that the call
\* before it was this check with the same threshold at the same time
DeviceAvailabilityCheck(threshold) ==
    /\ LET stale == StaleDevices(devices, now, threshold)
       IN  /\ devices' = MarkOffline(devices, stale)
           /\ mon' = [mon EXCEPT
                !.last = [NoMonCall EXCEPT !.op = "device_availability_check",
                                           !.events = OfflineEvents(devices, stale),
                                           !.returned = Cardinality(stale),
                                           !.threshold = threshold,
                                           !.repeat = (mon.last.threshold = threshold),
                                           !.after = mon.last.op]]
    /\ UNCHANGED now
    /\ MonOthersUnchanged

\* the clock advances
MonTick ==
    /\ now < MaxTime
    /\ now' = now + 1
    /\ mon' = [mon EXCEPT !.last.threshold = -1]
    /\ UNCHANGED devices
    /\ MonOthersUnchanged

NextSweep ==
    \/ \E threshold \in 0..MaxThreshold : DeviceAvailabilityCheck(threshold)
    \/ MonTick

SpecSweep == InitSweep /\ [][NextSweep]_vars

NextMon ==
    \/ \E outcomes \in ToolOutcomes : CheckToolHealth(outcomes)
    \/ \E outcomes \in ToolOutcomes : ToolHealthCheck(outcomes)
    \/ \E threshold \in 0..MaxThreshold : DeviceAvailabilityCheck(threshold)

SpecMon == InitMon /\ [][NextMon]_vars

----------------------------------------------------------------------------
(* run_command.  proc is the call: the command (a string or a list, its     *)
(* quoting when a string, whether its binary exists), the platform, the     *)
(* child (none, running, exited, killed), and the result returned or the    *)
(* exception raised.                                                         *)

\* ProcessResult.success
Success(result) == result.returncode = 0 /\ ~result.timed_out

NoResult == [returncode |-> 0, timed_out |-> FALSE]

IdleProc ==
    [pc |-> "idle", kind |-> "none", platform |-> "none", binary |-> "none",
     quotes |-> "none", child |-> "none", returncode |-> -1, timed_out |-> FALSE,
     result |-> NoResult, raised |-> "none", runs |-> 0]

InitProc ==
    /\ DedupUnused
    /\ ServiceUnused
    /\ PureUnused
    /\ CorrUnused
    /\ BusUnused
    /\ WsUnused
    /\ ScanUnused
    /\ RegUnused
    /\ regops = <<>>
    /\ sched = <<>>
    /\ mon = <<>>
    /\ pcalls = <<>>
    /\ proc = IdleProc

ProcOthersUnchanged ==
    UNCHANGED <<dedup_vars, service_vars, pure_vars, corr_last, bus_vars, ws_vars, scan_vars,
                reg_vars, regops, sched, mon, pcalls>>

\* what the spawn of the command does: a string goes to the shell on win32,
\* which starts whether or not the binary exists, and elsewhere through
\* shlex.split, which raises ValueError on an unclosed quote, to
\* create_subprocess_exec, which raises FileNotFoundError for a binary that
\* does not exist; a list goes to create_subprocess_exec on every platform
Spawn(kind, platform, binary, quotes) ==
    IF kind = "str" /\ platform = "win32" THEN "shell"
    ELSE IF kind = "str" /\ quotes = "unclosed" THEN "ValueError"
    ELSE IF binary = "missing" THEN "FileNotFoundError"
    ELSE "child"

\* run_command(command) up to the await of communicate, or to the exception
\* of the spawn, which nothing catches
RunCommand(kind, platform, binary, quotes) ==
    /\ proc.pc \in {"idle", "done"}
    /\ proc.runs < MaxRuns
    /\ kind = "list" => quotes = "closed"
    /\ LET spawned == Spawn(kind, platform, binary, quotes)
           run == [IdleProc EXCEPT !.kind = kind, !.platform = platform, !.binary = binary,
                                    !.quotes = quotes, !.runs = proc.runs + 1]
       IN  proc' = IF spawned \in {"ValueError", "FileNotFoundError"}
                   THEN [run EXCEPT !.pc = "done", !.raised = spawned]
                   ELSE [run EXCEPT !.pc = "communicate", !.child = "running"]
    /\ ProcOthersUnchanged

\* the return code of a child: the shell that does not find the binary ends
\* with a code other than 0
ReturnCodes(run) ==
    IF run.binary = "missing" THEN 1..MaxReturnCode ELSE 0..MaxReturnCode

\* the result run_command builds and returns
ResultOf(run) == [returncode |-> run.returncode, timed_out |-> run.timed_out]

\* the child exits within the timeout and communicate returns
ChildExits(returncode) ==
    /\ proc.pc = "communicate"
    /\ proc.child = "running"
    /\ returncode \in ReturnCodes(proc)
    /\ LET run == [proc EXCEPT !.child = "exited", !.returncode = returncode]
       IN  proc' = [run EXCEPT !.pc = "done", !.result = ResultOf(run)]
    /\ ProcOthersUnchanged

\* asyncio.TimeoutError: timed_out = True; proc.kill()
Timeout ==
    /\ proc.pc = "communicate"
    /\ proc.child = "running"
    /\ proc' = [proc EXCEPT !.pc = "drain", !.timed_out = TRUE, !.child = "killed"]
    /\ ProcOthersUnchanged

\* await proc.communicate() after the kill: the return code is that of a
\* killed child, -9 by SIGKILL and 1 on win32
Drained ==
    /\ proc.pc = "drain"
    /\ LET run == [proc EXCEPT !.returncode = IF proc.platform = "win32" THEN 1 ELSE -9]
       IN  proc' = [run EXCEPT !.pc = "done", !.result = ResultOf(run)]
    /\ ProcOthersUnchanged

NextProc ==
    \/ \E kind \in {"str", "list"}, platform \in {"win32", "posix"},
          binary \in {"present", "missing"}, quotes \in {"closed", "unclosed"} :
           RunCommand(kind, platform, binary, quotes)
    \/ \E returncode \in 0..MaxReturnCode : ChildExits(returncode)
    \/ Timeout
    \/ Drained

SpecProc == InitProc /\ [][NextProc]_vars

----------------------------------------------------------------------------
(* One AlertService whose process_raw_alert runs in two tasks at once.  The *)
(* tasks share the deduplicator, the correlator and the session; nothing    *)
(* serialises them.  pcalls holds the call of each task.  A call is         *)
(* suspended in the flush of _create_alert (its alert is added to the       *)
(* session, the INSERT is not done), in dispatch, in publish, or in the     *)
(* execute of _update_existing_alert.  The clock stands still.              *)

Callers == {1, 2}

\* what the select of _update_existing_alert does while the flush of
\* another task is in flight on the same session, a use the session does
\* not support: it overtakes the INSERT and finds no row, or the session or
\* the driver refuses the second operation and execute raises; a select
\* that comes after the INSERT is the step taken once the flush has ended
OvertakingSelect == {"none", "raise"}

InitConcurrent ==
    /\ now = 0
    /\ DedupInit(MaxWindow, DefaultMaxSize)
    /\ recent = <<>>
    /\ next_cid = 0
    /\ rows = <<>>
    /\ queue = <<>>
    /\ call = <<>>
    /\ cfg \in DispatchConfigs
    /\ PureUnused
    /\ CorrUnused
    /\ BusUnused
    /\ WsUnused
    /\ ScanUnused
    /\ RegUnused
    /\ regops = <<>>
    /\ sched = <<>>
    /\ mon = <<>>
    /\ proc = <<>>
    /\ pcalls = [c \in Callers |-> IdleCall]

ConcurrentOthersUnchanged ==
    UNCHANGED <<now, window, max_size, last, call, cfg, pure_vars, corr_last, bus_vars, ws_vars,
                scan_vars, reg_vars, regops, sched, mon, proc>>

\* task c calls process_raw_alert and runs to its first await
TaskBegins(c, i) ==
    /\ pcalls[c].pc = "idle"
    /\ LET alert == Normalize(PipelineInputs[i].tool, PipelineInputs[i].raw, now)
           r == DedupCheck(seen, alert.fingerprint, now, window, max_size)
           k == Correlate(recent, alert, now, next_cid)
           started == [IdleCall EXCEPT !.is_new = r.is_new, !.count = r.count]
       IN  /\ r.count <= MaxCount
           /\ seen' = r.seen
           /\ IF r.is_new
              THEN /\ recent' = k.recent
                   /\ next_cid' = k.minted
                   /\ pcalls' = [pcalls EXCEPT ![c] = [started EXCEPT
                                   !.pc = "persist",
                                   !.alert = [alert EXCEPT !.severity = Classify(<<>>, alert, r.count)],
                                   !.cid = k.cid]]
              ELSE /\ UNCHANGED <<recent, next_cid>>
                   /\ pcalls' = [pcalls EXCEPT ![c] = [started EXCEPT !.pc = "update",
                                                                      !.alert = alert]]
    /\ UNCHANGED <<rows, queue>>
    /\ ConcurrentOthersUnchanged

\* the flush of _create_alert of task c ends: the row is there
TaskPersists(c) ==
    /\ pcalls[c].pc = "persist"
    /\ rows' = Append(rows, NewAlert(Len(rows) + 1, pcalls[c].alert, pcalls[c].cid,
                                     pcalls[c].count, now))
    /\ pcalls' = [pcalls EXCEPT ![c].pc = "dispatch", ![c].row = Len(rows) + 1]
    /\ UNCHANGED <<seen, recent, next_cid, queue>>
    /\ ConcurrentOthersUnchanged

\* the dispatch of task c ends
TaskDispatches(c, wok, eok) ==
    /\ pcalls[c].pc = "dispatch"
    /\ LET d == Dispatch(cfg, wok, eok)
       IN  pcalls' = [pcalls EXCEPT ![c] =
                        IF d.raised THEN Finished(pcalls[c], "raised")
                        ELSE [pcalls[c] EXCEPT !.pc = "publish",
                                               !.channel_failed = "failed" \in {d.webhook, d.email}]]
    /\ UNCHANGED <<seen, recent, next_cid, rows, queue>>
    /\ ConcurrentOthersUnchanged

\* the publish of task c ends and the call returns the alert
TaskPublishes(c) ==
    /\ pcalls[c].pc = "publish"
    /\ Len(queue) < MaxQueue
    /\ queue' = Append(queue, Event("alert.created", pcalls[c].row))
    /\ pcalls' = [pcalls EXCEPT ![c] = Finished(pcalls[c], "alert")]
    /\ UNCHANGED <<seen, recent, next_cid, rows>>
    /\ ConcurrentOthersUnchanged

\* _update_existing_alert of task c while no flush is in flight
TaskUpdates(c) ==
    /\ pcalls[c].pc = "update"
    /\ \A d \in Callers : pcalls[d].pc # "persist"
    /\ LET u == UpdateExistingAlert(rows, pcalls[c].alert.fingerprint, pcalls[c].count, now)
       IN  /\ rows' = u.rows
           /\ pcalls' = [pcalls EXCEPT ![c] =
                            Finished(pcalls[c], IF u.raised THEN "raised" ELSE "None")]
    /\ UNCHANGED <<seen, recent, next_cid, queue>>
    /\ ConcurrentOthersUnchanged

\* _update_existing_alert of task c while the flush of the other task is in
\* flight
TaskUpdatesDuringFlush(c, outcome) ==
    /\ pcalls[c].pc = "update"
    /\ \E d \in Callers : pcalls[d].pc = "persist"
    /\ pcalls' = [pcalls EXCEPT ![c] =
                     Finished(pcalls[c], IF outcome = "raise" THEN "raised" ELSE "None")]
    /\ UNCHANGED <<seen, recent, next_cid, rows, queue>>
    /\ ConcurrentOthersUnchanged

\* the caller of task c has the outcome; the task is free for the next record
TaskReturns(c) ==
    /\ pcalls[c].pc = "done"
    /\ pcalls' = [pcalls EXCEPT ![c] = IdleCall]
    /\ UNCHANGED <<seen, recent, next_cid, rows, queue>>
    /\ ConcurrentOthersUnchanged

\* the dispatch task of the bus takes the next event off the queue
TaskBusTake ==
    /\ queue # <<>>
    /\ queue' = Tail(queue)
    /\ UNCHANGED <<seen, recent, next_cid, rows, pcalls>>
    /\ ConcurrentOthersUnchanged

NextConcurrent ==
    \/ \E c \in Callers, i \in DOMAIN PipelineInputs : TaskBegins(c, i)
    \/ \E c \in Callers : TaskPersists(c)
    \/ \E c \in Callers, wok, eok \in BOOLEAN : TaskDispatches(c, wok, eok)
    \/ \E c \in Callers : TaskPublishes(c)
    \/ \E c \in Callers : TaskUpdates(c)
    \/ \E c \in Callers, outcome \in OvertakingSelect : TaskUpdatesDuringFlush(c, outcome)
    \/ \E c \in Callers : TaskReturns(c)
    \/ TaskBusTake

SpecConcurrent == InitConcurrent /\ [][NextConcurrent]_vars

----------------------------------------------------------------------------
(* Properties of the deduplicator *)

\* C2: check returns (is-new=false, previous count + 1) and sets last-seen to
\* now, keeping first-seen, when the fingerprint has an entry no older than
\* the window; otherwise it returns (is-new=true, 1) and sets the entry to
\* (first-seen=now, last-seen=now, count=1).
C2_CheckContract ==
    last.op = "check" =>
        LET i == IndexOf(last.pre, last.fp)
            j == IndexOf(seen, last.fp)
        IN  /\ j # 0
            /\ IF i # 0 /\ now - last.pre[i].last_seen <= window
               THEN /\ last.is_new = FALSE
                    /\ last.count = last.pre[i].count + 1
                    /\ seen[j].first_seen = last.pre[i].first_seen
                    /\ seen[j].last_seen = now
                    /\ seen[j].count = last.pre[i].count + 1
               ELSE /\ last.is_new = TRUE
                    /\ last.count = 1
                    /\ seen[j] = [fp |-> last.fp, first_seen |-> now,
                                  last_seen |-> now, count |-> 1]

\* a second occurrence, exactly one window after the first, was counted as a duplicate
C2_Witness ==
    /\ last.op = "check"
    /\ last.is_new = FALSE
    /\ last.count = 2
    /\ window > 0
    /\ \E i \in DOMAIN last.pre :
          last.pre[i].fp = last.fp /\ now - last.pre[i].last_seen = window

\* the entries of the table before the last call that the call removed
Evicted == {i \in DOMAIN last.pre : IndexOf(seen, last.pre[i].fp) = 0}

\* the last call was a check of an unknown fingerprint on a table at max size
EvictingCheck ==
    /\ last.op = "check"
    /\ Len(last.pre) >= max_size
    /\ IndexOf(last.pre, last.fp) = 0

\* every evicted entry has last-seen no greater than any retained entry's
OldestEvicted ==
    \A e \in Evicted, k \in DOMAIN last.pre \ Evicted :
        last.pre[e].last_seen <= last.pre[k].last_seen

\* C3 as stated: inserting an unknown fingerprint into a table at max size
\* evicts at least 1 and at most 25% of the existing entries, all of them
\* with last-seen no greater than any retained entry's, for every max size >= 1.
C3_Original ==
    EvictingCheck =>
        /\ Cardinality(Evicted) >= 1
        /\ 4 * Cardinality(Evicted) <= Len(last.pre)
        /\ OldestEvicted

\* C3 amended: inserting an unknown fingerprint into a table at max size n
\* evicts exactly max(1, floor(n/4)) existing entries, which is at least 1 and
\* is at most 25% of them whenever n >= 4; every evicted entry has last-seen
\* no greater than any retained entry's.
C3_EvictQuarterOrOne ==
    EvictingCheck =>
        LET n == Len(last.pre) IN
        /\ Cardinality(Evicted) = (IF n \div 4 >= 1 THEN n \div 4 ELSE 1)
        /\ Cardinality(Evicted) >= 1
        /\ (n >= 4 => 4 * Cardinality(Evicted) <= n)
        /\ OldestEvicted
        /\ Len(seen) = n - Cardinality(Evicted) + 1

\* two of at least eight entries were evicted while an older-inserted, fresher entry stayed
C3_Witness ==
    /\ EvictingCheck
    /\ Len(last.pre) >= 8
    /\ Cardinality(Evicted) >= 2
    /\ \E e \in Evicted, k \in DOMAIN last.pre \ Evicted :
          k < e /\ last.pre[k].last_seen > last.pre[e].last_seen

\* C4: cleanup removes exactly the entries whose age since last-seen exceeds
\* twice the window and returns their number; a second cleanup right after
\* it, with no time elapsed and no check in between, removes nothing and
\* returns 0.
C4_CleanupExactIdempotent ==
    last.op = "cleanup" =>
        LET old == {i \in DOMAIN last.pre : now - last.pre[i].last_seen > 2 * window}
        IN  /\ last.removed = Cardinality(old)
            /\ Len(seen) = Len(last.pre) - Cardinality(old)
            /\ {seen[j] : j \in DOMAIN seen} = {last.pre[i] : i \in DOMAIN last.pre \ old}
            /\ \A j, k \in DOMAIN seen :
                  j < k => IndexOf(last.pre, seen[j].fp) < IndexOf(last.pre, seen[k].fp)
            /\ last.prev_op = "cleanup" => (last.removed = 0 /\ seen = last.pre)

\* a cleanup that removed entries while keeping others was followed at once by a second one
C4_Witness ==
    /\ last.op = "cleanup"
    /\ last.prev_op = "cleanup"
    /\ last.prev_removed > 0
    /\ last.removed = 0
    /\ Len(seen) > 0

\* every entry of the table is well formed, and the table is within its size
C38State ==
    /\ Len(seen) <= max_size
    /\ \A i \in DOMAIN seen : seen[i].count >= 1 /\ seen[i].first_seen <= seen[i].last_seen
    /\ \A i, j \in DOMAIN seen : seen[i].fp = seen[j].fp => i = j

\* C38: after any sequence of check and cleanup calls on a deduplicator of
\* max size N >= 1 the table holds at most N entries, each with a count of
\* at least 1 and first-seen no later than last-seen, and no step lowers the
\* count of an entry that stays in the table and is within its window.
C38_BoundedAndMonotone ==
    [][/\ C38State'
       /\ \A i \in DOMAIN seen, j \in DOMAIN seen' :
             (seen[i].fp = seen'[j].fp /\ now - seen[i].last_seen <= window)
                 => seen'[j].count >= seen[i].count]_vars

\* a table at its max size in which a duplicate has just raised a count to 2
C38_Witness ==
    /\ last.op = "check"
    /\ ~last.is_new
    /\ last.count = 2
    /\ Len(seen) = max_size
    /\ max_size > 1
    /\ \E i \in DOMAIN seen : seen[i].fp = last.fp /\ seen[i].count = 2

----------------------------------------------------------------------------
(* Properties of the alert service *)

\* the persisted alerts with the fingerprint fp last seen within the dedup window
LiveRows(fp) ==
    {a \in DOMAIN rows : rows[a].fingerprint = fp /\ now - rows[a].last_seen <= window}

C1Step ==
    /\ (call.pc = "persist" /\ Len(rows') > Len(rows))
          => LiveRows(call.alert.fingerprint) = {}
    /\ (call.pc = "update" /\ call'.pc = "done")
          => \A a \in LiveRows(call.alert.fingerprint) :
                /\ Len(rows') = Len(rows)
                /\ rows'[a].count = rows[a].count + 1
                /\ rows'[a].last_seen = now

\* C1: as long as the store has not failed, a raw record that normalizes to
\* the fingerprint of a persisted alert A and arrives within the dedup window
\* of A's last-seen creates no new row, raises A.count by exactly one and
\* moves A.last-seen to the record's arrival time.
C1_DuplicateCountsOnce == [][call'.faults = 0 => C1Step]_vars

\* C5: the count and last-seen of a resolved row never change, and a raw
\* record whose fingerprint only has resolved rows is treated as new, so that
\* it gets a row of its own.
C5_ResolvedIsTerminal ==
    [][ /\ \A a \in DOMAIN rows :
              rows[a].status = "resolved"
                  => /\ rows'[a].count = rows[a].count
                     /\ rows'[a].last_seen = rows[a].last_seen
        /\ (call.pc = "idle" /\ call'.pc # "idle")
              => LET same == RowsWithFingerprint(rows, call'.alert.fingerprint)
                 IN  (same # {} /\ \A a \in same : rows[a].status = "resolved")
                         => call'.pc = "persist" ]_vars

DuplicateStages == <<"normalize", "dedup", "update">>
NewAlertStages == <<"normalize", "dedup", "correlate", "classify", "persist", "dispatch", "publish">>

IsPrefix(s, t) == Len(s) <= Len(t) /\ s = SubSeq(t, 1, Len(s))

C6State ==
    /\ IsPrefix(call.trace, IF call.is_new THEN NewAlertStages ELSE DuplicateStages)
    /\ (call.pc = "done" /\ ~call.is_new)
          => (call.result = "None" /\ call.trace = DuplicateStages /\ call.row = 0)
    /\ (call.pc = "done" /\ call.is_new)
          => (call.result = "alert" /\ call.trace = NewAlertStages)
    /\ \A k \in DOMAIN queue :
          queue[k].type = "alert.created" => queue[k].alert_id \in DOMAIN rows

C6Step ==
    (call.pc = "update" /\ call' # call)
        => /\ recent' = recent
           /\ Len(rows') = Len(rows)
           /\ queue' = queue

\* C6: as long as the store has not failed, a record goes through normalize
\* and dedup-check and then, if it is a duplicate, only the persisted counters
\* are updated (no correlation entry, no new row, no dispatch, no event) and
\* the call returns "no new alert"; if it is new, correlate, classify, persist,
\* dispatch and publish follow in that order and the call returns the alert;
\* alert.created is only ever published for a persisted alert.
C6_StageOrder == [][call'.faults = 0 => (C6State' /\ C6Step)]_vars

C7Step ==
    /\ (call.pc = "persist" /\ call' # call)
          => \/ /\ call'.pc = "dispatch"
                /\ rows' = Append(rows, rows'[Len(rows')])
                /\ call'.row = Len(rows')
             \/ /\ call'.pc = "done"
                /\ call'.result = "raised"
                /\ UNCHANGED <<rows, queue, seen, recent>>
    /\ (call.pc = "dispatch" /\ call' # call)
          => /\ call'.pc = "publish"
             /\ call'.row = call.row
             /\ UNCHANGED <<rows, queue>>
    /\ (call.pc = "publish" /\ call' # call)
          => /\ call'.pc = "done"
             /\ call'.result = "alert"
             /\ call'.row \in DOMAIN rows'
             /\ rows' = rows
             /\ queue' = Append(queue, Event("alert.created", call'.row))
    /\ (call.pc = "done" /\ call' # call) => call'.pc = "idle"

LatestRows(fp) ==
    {a \in RowsWithFingerprint(rows, fp) :
        \A b \in RowsWithFingerprint(rows, fp) : rows[b].last_seen <= rows[a].last_seen}

C37Step ==
    /\ (call.pc = "persist" /\ Len(rows') > Len(rows))
          => rows'[Len(rows')].count = 1
    /\ (call.pc = "update" /\ call' # call /\ RowsWithFingerprint(rows, call.alert.fingerprint) # {})
          => /\ call'.result = "None"
             /\ Len(rows') = Len(rows)
             /\ \E a \in LatestRows(call.alert.fingerprint) :
                   /\ rows'[a] = [rows[a] EXCEPT !.count = call.count, !.last_seen = now]
                   /\ \A b \in DOMAIN rows : b # a => rows'[b] = rows[b]

\* C37: as long as the store has not failed, a record whose fingerprint is
\* known and whose dedup window has expired gets a second row with count 1,
\* and every later duplicate inside the new window succeeds: it sets count
\* and last-seen of the most recently seen row with that fingerprint and
\* leaves every other row as it was.
C37_SecondRowThenDuplicates == [][call'.faults = 0 => C37Step]_vars

C39Step ==
    /\ (call.pc = "idle" /\ call'.pc # "idle")
          => /\ (\E k \in DOMAIN call'.trace : call'.trace[k] = "classify") <=> call'.is_new
             /\ call'.is_new => call'.count = 1
    /\ \A a \in DOMAIN rows : rows'[a].severity = rows[a].severity

\* C39: process_raw_alert classifies a record exactly if the dedup check
\* reports it new, and then with the occurrence count 1; the severity of a
\* persisted alert is the one set when it was created, and no duplicate that
\* arrives later changes it.
C39_SeverityFixedAtCreation == [][C39Step]_vars

\* a duplicate has raised the count of a persisted alert to 2
C39_Witness ==
    /\ call.pc = "done"
    /\ call.result = "None"
    /\ ~call.is_new
    /\ call.count = 2
    /\ \E a \in DOMAIN rows : rows[a].fingerprint = call.alert.fingerprint /\ rows[a].count = 2

\* C36: once the calls of both tasks have ended, every fingerprint the
\* deduplicator has counted has exactly one persisted row, and the count of
\* that row is the count of the deduplicator: the same as if the records had
\* been processed one after the other, with no update lost.
C36_ConcurrentAsSequential ==
    (pcalls # <<>> /\ \A c \in Callers : pcalls[c].pc \in {"idle", "done"}) =>
        \A k \in DOMAIN seen :
            \E a \in DOMAIN rows :
                /\ RowsWithFingerprint(rows, seen[k].fp) = {a}
                /\ rows[a].count = seen[k].count

----------------------------------------------------------------------------
(* Properties of the event bus *)

\* the position of event id e among the events that entered the queue, 0 if none
PublishedAt(e) ==
    IF \E i \in DOMAIN buslog.published : buslog.published[i].id = e
    THEN CHOOSE i \in DOMAIN buslog.published : buslog.published[i].id = e
    ELSE 0

\* the type of the published event id e
TypeOfEvent(e) == buslog.published[PublishedAt(e)].type

\* the positions in the delivery log at which handler h was invoked with event e
Deliveries(h, e) ==
    {i \in DOMAIN buslog.delivered :
        buslog.delivered[i].handler = h /\ buslog.delivered[i].event = e}

\* C13: the events a subscriber, typed or wildcard, is invoked with come in
\* the order in which they entered the bus queue, whatever the interleaving of
\* the publishers and the dispatch task.
C13_DeliveryInPublishOrder ==
    \A i, j \in DOMAIN buslog.delivered :
        (i < j /\ buslog.delivered[i].handler = buslog.delivered[j].handler)
            => /\ PublishedAt(buslog.delivered[i].event) # 0
               /\ PublishedAt(buslog.delivered[i].event) <= PublishedAt(buslog.delivered[j].event)

\* on a bus whose queue holds one event, a wildcard handler was invoked with
\* two events of different types, the first published first
C13_Witness ==
    /\ max_queue_size = 1
    /\ \E i, j \in DOMAIN buslog.delivered :
          /\ i < j
          /\ buslog.delivered[i].handler = buslog.delivered[j].handler
          /\ buslog.reg[buslog.delivered[i].handler].kind = "wildcard"
          /\ TypeOfEvent(buslog.delivered[i].event) # TypeOfEvent(buslog.delivered[j].event)
          /\ PublishedAt(buslog.delivered[i].event) < PublishedAt(buslog.delivered[j].event)

\* handler h is registered for events of the given type: a wildcard handler, or
\* a typed handler of that type
Receives(h, type) ==
    buslog.reg[h].kind = "wildcard" \/ buslog.reg[h].type = type

\* the handlers that were registered when event id e was taken and receive its type
ReceiversAtTake(e) ==
    {h \in DOMAIN buslog.reg :
        /\ \E i \in DOMAIN buslog.taken : buslog.taken[i].event = e /\ h <= buslog.taken[i].handlers
        /\ Receives(h, TypeOfEvent(e))}

\* every task runs its loop, and every event the loop is through with was
\* handed to every handler that was registered for it when it was taken
C14State ==
    /\ \A k \in DOMAIN tasks : tasks[k].pc \in {"wait", "handler"}
    /\ \A e \in buslog.dispatched : \A h \in ReceiversAtTake(e) : Deliveries(h, e) # {}
    /\ buslog.raised = {}

\* C14: a handler that raises an Exception stops neither the dispatch of the
\* event to the handlers after it nor the dispatch loop, which goes on to
\* deliver the later events; nothing of the raise reaches a publisher: the
\* queue, the suspended publishers and the events accepted stay as they are.
C14_SubscriberIsolation ==
    [][/\ C14State'
       /\ Raised(buslog') > Raised(buslog)
            => /\ UNCHANGED <<bus_queue, putters, running, task, subscribers, wildcard_subscribers>>
               /\ buslog'.published = buslog.published
               /\ buslog'.dropped = buslog.dropped]_vars

\* a handler raised on an event, another handler was then invoked with the
\* same event, and a later event was delivered as well
C14_Witness ==
    \E i, j, k \in DOMAIN buslog.delivered :
        /\ i < j /\ j < k
        /\ buslog.delivered[i].outcome = "raised"
        /\ buslog.delivered[j].event = buslog.delivered[i].event
        /\ buslog.delivered[j].handler # buslog.delivered[i].handler
        /\ buslog.delivered[k].event # buslog.delivered[i].event
        /\ buslog.delivered[k].outcome = "returned"
        /\ buslog.delivered[i].event \in buslog.dispatched

\* stop has returned and start was not called since
Stopped == ~running /\ task # 0

\* C15: once stop has returned, every event that entered the queue has been
\* handed to every handler that receives its type and was registered when it
\* was published (here: registered before any event was built).
C15_StopDrains ==
    Stopped =>
        \A i \in DOMAIN buslog.published : \A h \in DOMAIN buslog.reg :
            (buslog.reg[h].first /\ Receives(h, buslog.published[i].type))
                => Deliveries(h, buslog.published[i].id) # {}

\* the ids of the events that entered the queue so far
PublishedIds(log) == {log.published[i].id : i \in DOMAIN log.published}

\* the queue holds no more than its capacity, and every event handed to the
\* bus has entered the queue, was dropped, or is held by a suspended publisher
C16State ==
    /\ max_queue_size > 0 => Len(bus_queue) <= max_queue_size
    /\ buslog.raised = {}
    /\ \A id \in 1..buslog.next_event :
          /\ id \in PublishedIds(buslog) \/ id \in buslog.dropped
                \/ (\E event \in putters : event.id = id)
          /\ ~(id \in PublishedIds(buslog) /\ id \in buslog.dropped)
          /\ \A event \in putters : event.id = id
                => id \notin PublishedIds(buslog) /\ id \notin buslog.dropped

\* C16: the queue never holds more than its capacity; publish_nowait on a
\* full queue drops the new event, leaves the queue as it is and returns
\* without raising; publish on a full queue suspends the publisher with the
\* queue unchanged, and the publisher enqueues its event, at the tail, only
\* once the queue has room.
C16_QueueCapacity ==
    [][/\ C16State'
       /\ buslog'.dropped # buslog.dropped
            => /\ QueueFull(bus_queue, max_queue_size)
               /\ bus_queue' = bus_queue
               /\ putters' = putters
               /\ buslog'.published = buslog.published
       /\ (buslog'.next_event # buslog.next_event /\ QueueFull(bus_queue, max_queue_size))
            => /\ bus_queue' = bus_queue
               /\ \/ buslog'.dropped = buslog.dropped \cup {buslog'.next_event}
                  \/ putters' = putters \cup {BusEvent(buslog'.next_event, "alert.created")}
                  \/ putters' = putters \cup {BusEvent(buslog'.next_event, "scan.started")}
       /\ \A event \in putters \ putters' :
               /\ ~QueueFull(bus_queue, max_queue_size)
               /\ bus_queue' = Append(bus_queue, event)
               /\ event.id \in buslog.suspended]_vars

\* on a bus with a capacity, the queue is full again with an event whose
\* publisher was suspended on the full queue until the task took an event
C16_Witness ==
    /\ max_queue_size > 0
    /\ Len(bus_queue) = max_queue_size
    /\ \E i \in DOMAIN bus_queue : bus_queue[i].id \in buslog.suspended
    /\ buslog.taken # <<>>

\* the dispatch tasks that exist: created by start and not yet ended
DispatchTasks == {k \in DOMAIN tasks : tasks[k].pc \in {"wait", "handler"}}

\* C17: start on a started bus has no effect: at most one dispatch task
\* exists at any time, and no task is created on a bus that is running.
C17_StartStopIdempotent ==
    [][/\ Cardinality(DispatchTasks') <= 1
       /\ running => Len(tasks') = Len(tasks)]_vars

\* the ids of the events taken from the queue so far
TakenIds == {buslog.taken[i].event : i \in DOMAIN buslog.taken}

\* the handlers registered when event id e was taken
RegisteredAtTake(e) ==
    {h \in DOMAIN buslog.reg :
        \E i \in DOMAIN buslog.taken : buslog.taken[i].event = e /\ h <= buslog.taken[i].handlers}

\* C18: an event taken by the dispatch task is delivered once to every
\* wildcard handler and once to every typed handler of its type, of those
\* registered when it was taken, and never to a typed handler of another type
\* nor twice to any handler.
C18_TypedAndWildcardRouting ==
    /\ \A t \in DOMAIN buslog.taken : \A h \in DOMAIN buslog.reg :
          LET e == buslog.taken[t].event
              n == Cardinality(Deliveries(h, e))
          IN  /\ n <= 1
              /\ ~Receives(h, TypeOfEvent(e)) => n = 0
              /\ (/\ e \in buslog.dispatched
                  /\ h <= buslog.taken[t].handlers
                  /\ Receives(h, TypeOfEvent(e))) => n = 1
    /\ \A i \in DOMAIN buslog.delivered : buslog.delivered[i].event \in TakenIds

\* a typed and a wildcard handler, both registered before two events of
\* different types were taken: the wildcard handler got both events, the typed
\* handler the one of its type only
C18_Witness ==
    \E h1, h2 \in DOMAIN buslog.reg : \E e1, e2 \in buslog.dispatched :
        /\ buslog.reg[h1].kind = "typed" /\ buslog.reg[h2].kind = "wildcard"
        /\ {h1, h2} \subseteq RegisteredAtTake(e1) \cap RegisteredAtTake(e2)
        /\ buslog.reg[h1].type = TypeOfEvent(e1)
        /\ buslog.reg[h1].type # TypeOfEvent(e2)
        /\ Deliveries(h1, e1) # {} /\ Deliveries(h2, e1) # {} /\ Deliveries(h2, e2) # {}
        /\ Deliveries(h1, e2) = {}

\* the positions in the delivery log of two invocations with the same event,
\* the first before the second
SameEventPairs ==
    {p \in (DOMAIN buslog.delivered) \X (DOMAIN buslog.delivered) :
        p[1] < p[2] /\ buslog.delivered[p[1]].event = buslog.delivered[p[2]].event}

\* C19: the handlers an event is delivered to are invoked in the order of
\* their registration on the bus, typed or wildcard alike.
C19_RegistrationOrder ==
    \A p \in SameEventPairs :
        buslog.delivered[p[1]].handler < buslog.delivered[p[2]].handler

\* C19, amended: the typed handlers of the event's type are invoked first, in
\* the order of their registration, and the wildcard handlers after them, in
\* the order of theirs.
C19_TypedThenWildcardOrder ==
    \A p \in SameEventPairs :
        LET a == buslog.reg[buslog.delivered[p[1]].handler]
            b == buslog.reg[buslog.delivered[p[2]].handler]
        IN  \/ a.kind = "typed" /\ b.kind = "wildcard"
            \/ a.kind = b.kind /\ a.handler < b.handler

\* an event went to a typed handler and then to a wildcard handler that was
\* registered before the typed one
C19_Witness ==
    \E p \in SameEventPairs :
        /\ buslog.reg[buslog.delivered[p[1]].handler].kind = "typed"
        /\ buslog.reg[buslog.delivered[p[2]].handler].kind = "wildcard"
        /\ buslog.delivered[p[2]].handler < buslog.delivered[p[1]].handler
        /\ buslog.delivered[p[2]].outcome = "returned"

----------------------------------------------------------------------------
(* Properties of the connection manager *)

\* the clients of a pass whose send failed
FailedIn(pass) == {pass.attempts[i].ws : i \in {j \in DOMAIN pass.attempts : ~pass.attempts[j].ok}}

\* C20: a broadcast pass sends, in list order, to every client that was in
\* the list when the pass began, whether or not earlier sends failed; while
\* the pass runs the list stays as it was, held under the lock by the pass;
\* when the pass ends the list is the list it began with, less the clients
\* whose send failed.
C20_BroadcastPass ==
    \A i \in DOMAIN wslog :
        LET pass == wslog[i]
            n == Len(pass.attempts)
        IN  /\ n <= Len(pass.before)
            /\ \A k \in 1..n : pass.attempts[k].ws = pass.before[k]
            /\ ~pass.done => /\ connections = pass.before
                             /\ lock.holder = pass.proc
                             /\ procs[pass.proc].pc = "send"
            /\ pass.done => /\ n = Len(pass.before)
                            /\ pass.after = SelectSeq(pass.before,
                                                      LAMBDA ws : ws \notin FailedIn(pass))

\* a pass over two clients ended: the send to the first failed, the second
\* was sent to all the same, the first alone was removed, and a connect or
\* disconnect call that came during a pass waited for the lock and is through
C20_Witness ==
    /\ \E i \in DOMAIN wslog :
          /\ wslog[i].done
          /\ Len(wslog[i].before) = 2
          /\ ~wslog[i].attempts[1].ok
          /\ wslog[i].attempts[2].ok
          /\ wslog[i].after = <<wslog[i].before[2]>>
    /\ \E p \in DOMAIN procs :
          /\ procs[p].op \in {"connect", "disconnect"}
          /\ procs[p].waited
          /\ procs[p].pc = "done"

----------------------------------------------------------------------------
(* Properties of the scan service *)

\* C22: a create_scan call for a tool that is not registered, or whose
\* adapter's status is not available, raises before any scan record exists
\* and before any event is published: the scans and the published events are
\* what they were before the call.
C22_RefusedBeforeRecord ==
    [][(scall.pc = "idle" /\ scall'.pc # "idle"
        /\ (scall'.tool \notin DOMAIN adapters \/ adapters[scall'.tool].status # "available"))
       => (scall'.pc = "done" /\ scall'.outcome = "raised"
           /\ scans' = scans /\ published' = published)]_vars

C22_Witness ==
    /\ scall.pc = "done"
    /\ scall.outcome = "raised"
    /\ \/ scall.error = "RuntimeError" /\ adapters["nmap"].status = "unknown"
       \/ scall.error = "ValueError" /\ Len(scans) = 1 /\ Len(published) >= 3

\* C21: when a create_scan call returns or raises, every scan record it
\* created (the record was flushed at least once) is in a terminal state:
\* completed, failed or cancelled.
C21_TerminalWhenCallEnds ==
    scall.pc = "done" =>
        \A i \in DOMAIN scans :
            scans[i].flushed # "none" => scans[i].status \in TerminalStatuses


\* the events published since the create_scan call in flight began
EventsOfCall == SubSeq(published, scall.mark + 1, Len(published))

\* C23: when the adapter returned a result without error that lists n hosts,
\* the record was pending, then running, then completed, and the call
\* published, in this order, one scan.started, one scan.progress, one
\* device.discovered or device.updated per host and one scan.completed, and
\* nothing else; devices_found is n and progress is 100.
C23_CompletedScan ==
    (scall.pc = "done" /\ scall.outcome = "returned" /\ scans[scall.scan].status = "completed") =>
        LET scan == scans[scall.scan]
            n == Len(scan.results)
            events == EventsOfCall
        IN  /\ scan.trail = <<"pending", "running", "completed">>
            /\ scan.devices_found = n
            /\ scan.progress = 100
            /\ Len(events) = n + 3
            /\ events[1].type = "scan.started"
            /\ events[2].type = "scan.progress"
            /\ \A k \in 1..n : events[2 + k].type \in {"device.discovered", "device.updated"}
            /\ events[n + 3].type = "scan.completed"


\* C24: the terminal states are absorbing: a scan becomes cancelled only
\* from pending or running, and once it was cancelled the create_scan call
\* in flight never makes it completed or failed.
C24_TerminalAbsorbing ==
    \A i \in DOMAIN scans :
        LET trail == scans[i].trail
        IN  \A k \in DOMAIN trail :
                /\ trail[k] = "cancelled" => (k > 1 /\ trail[k - 1] \in {"pending", "running"})
                /\ trail[k] \in {"completed", "failed"} =>
                       \A j \in 1..(k - 1) : trail[j] # "cancelled"


EventsOfType(events, types) == {k \in DOMAIN events : events[k].type \in types}

\* C25: once the record is running, whatever raises (execute, a flush, a
\* publish), the call returns the scan and does not raise, the scan is failed
\* with the error's text and the last event published is scan.failed; and
\* when execute returned a map with the key error, the scan is failed with
\* that error, no device event was published and exactly one scan.failed was.
C25_FailureHandled ==
    (scall.pc = "done" /\ scall.scan # 0 /\ scans[scall.scan].started_at # -1) =>
        LET scan == scans[scall.scan]
            events == EventsOfCall
        IN  /\ scall.outcome = "returned"
            /\ scall.error # "" =>
                   /\ scan.status = "failed"
                   /\ scan.error_message = scall.error
                   /\ events[Len(events)].type = "scan.failed"
            /\ scan.error_message = "scan timed out" =>
                   /\ scan.status = "failed"
                   /\ EventsOfType(events, {"device.discovered", "device.updated"}) = {}
                   /\ Cardinality(EventsOfType(events, {"scan.failed"})) = 1


----------------------------------------------------------------------------
(* Properties of the device service *)

\* the step is an upsert_from_scan call that returned
UpsertReturned == dcall'.calls = dcall.calls + 1 /\ ~dcall'.raised

\* C26: an upsert of a host whose earlier upsert returned a device updates
\* that same device: no device is added and device.updated is published,
\* while an upsert that adds a device publishes device.discovered; the
\* device's last-seen becomes the time of the upsert and does not decrease,
\* its first-seen stays, and a non-empty MAC, hostname or vendor stays
\* when the incoming value is empty.
C26_UpsertTwice ==
    [][UpsertReturned =>
          LET host == dcall'.host
              id == dcall'.id
              last_event == published'[Len(published')]
          IN  /\ Len(published') = Len(published) + 1
              /\ last_event.id = id
              /\ (\E p \in dcall.upserted : p[1] = host) =>
                     /\ <<host, id>> \in dcall.upserted
                     /\ Len(devices') = Len(devices)
                     /\ last_event.type = "device.updated"
              /\ Len(devices') = Len(devices) + 1 =>
                     /\ id = Len(devices')
                     /\ last_event.type = "device.discovered"
                     /\ devices'[id].first_seen = now
              /\ devices'[id].last_seen = now
              /\ id \in DOMAIN devices =>
                     /\ Len(devices') = Len(devices)
                     /\ devices'[id].last_seen >= devices[id].last_seen
                     /\ devices'[id].first_seen = devices[id].first_seen
                     /\ (devices[id].mac_address # "" /\ host.mac = "")
                            => devices'[id].mac_address = devices[id].mac_address
                     /\ (devices[id].hostname # "" /\ host.hostname = "")
                            => devices'[id].hostname = devices[id].hostname
                     /\ (devices[id].vendor # "" /\ host.vendor = "")
                            => devices'[id].vendor = devices[id].vendor]_vars

\* the same host was upserted twice, the second time later and without
\* hostname and vendor onto a device that has them
C26_Witness ==
    /\ dcall.op = "upsert"
    /\ ~dcall.raised
    /\ dcall.event = "device.updated"
    /\ dcall.again
    /\ Len(devices) = 1
    /\ devices[1].last_seen > devices[1].first_seen
    /\ devices[1].hostname # ""
    /\ dcall.host.hostname = ""


\* C27: after any upserts of hosts and any availability sweeps, the status of
\* every device is online or offline.
C27_StatusOnlineOrOffline ==
    \A i \in DOMAIN devices : devices[i].status \in {"online", "offline"}

\* the IP address of a host, IPv4 or IPv6
HostIp(host) == IF host.ipv4 # "" THEN host.ipv4 ELSE host.ipv6

\* the devices a host is the same as: the IP address is equal, or the MAC
\* address is known and equal
SameDevice(tbl, host) ==
    {i \in DOMAIN tbl : tbl[i].ip_address = HostIp(host)
                        \/ (host.mac # "" /\ tbl[i].mac_address = host.mac)}

\* C28: an upsert_from_scan call never raises; it updates a device whose IP
\* address equals the host's (IPv4 or IPv6) or whose MAC address equals the
\* host's known MAC address, and when there is no such device it adds one.
C28_MatchByIpOrMac ==
    [][dcall'.calls = dcall.calls + 1 =>
          /\ ~dcall'.raised
          /\ IF SameDevice(devices, dcall'.host) = {}
             THEN Len(devices') = Len(devices) + 1 /\ dcall'.id = Len(devices')
             ELSE Len(devices') = Len(devices) /\ dcall'.id \in SameDevice(devices, dcall'.host)]_vars


----------------------------------------------------------------------------
(* Properties of the adapter registry *)

CallsOf(name, method) ==
    {k \in DOMAIN initlog.calls : initlog.calls[k].name = name /\ initlog.calls[k].call = method}

\* C29: during init_all, start is called on an adapter exactly when its
\* detect returned true: not after detect returned false or raised, always
\* (and once) after it returned true, and never before its detect.
C29_StartIffDetected ==
    \A name \in DOMAIN adapters :
        /\ Cardinality(CallsOf(name, "start")) <= 1
        /\ CallsOf(name, "start") # {}
               <=> \E k \in CallsOf(name, "detect") : initlog.calls[k].outcome = "true"
        /\ \A k \in CallsOf(name, "start") :
               k > 1 /\ initlog.calls[k - 1] = [name |-> name, call |-> "detect", outcome |-> "true"]

C29_Witness ==
    /\ initlog.pc = "done"
    /\ initlog.inits = 1
    /\ \E name \in DOMAIN adapters : CallsOf(name, "start") # {}
    /\ \E name \in DOMAIN adapters :
           /\ CallsOf(name, "start") = {}
           /\ \E k \in CallsOf(name, "detect") : initlog.calls[k].outcome # "true"

\* C30: when init_all has returned, the status in each adapter's descriptor
\* agrees with the value reported for the adapter: available exactly when
\* true was reported, unavailable when detect returned false, error when
\* detect or start raised.
C30_StatusMatchesReport ==
    initlog.pc = "done" =>
        \A name \in DOMAIN adapters :
            LET status == ToolInfo(adapters[name]).status
            IN  /\ status = "available" <=> initlog.returned[name]
                /\ adapters[name].detect = "false" => status = "unavailable"
                /\ (adapters[name].detect = "raise"
                    \/ (adapters[name].detect = "true" /\ adapters[name].start = "raise"))
                       => status = "error"


\* the calls the health_check_all or shutdown_all call made on an adapter
RegOpCallsOn(name) == {k \in DOMAIN regops.calls : regops.calls[k].name = name}

\* C31: when health_check_all returns, it called health_check once on every
\* registered adapter and reports a status for each: error for an adapter
\* whose health check raised, the status the health check returned
\* otherwise; when shutdown_all returns, it called stop once on every
\* registered adapter, whatever an earlier stop did.
C31_EveryAdapterReached ==
    regops.pc = "done" =>
        /\ \A name \in DOMAIN adapters : Cardinality(RegOpCallsOn(name)) = 1
        /\ regops.op = "health" =>
               /\ DOMAIN regops.results = DOMAIN adapters
               /\ \A k \in DOMAIN regops.calls :
                      regops.results[regops.calls[k].name] =
                          IF regops.calls[k].outcome = "raise" THEN "error"
                          ELSE regops.calls[k].outcome

\* the first adapter's health check raised and the second one's was reported
C31_Witness ==
    /\ regops.pc = "done"
    /\ regops.op = "health"
    /\ Len(regops.calls) = 2
    /\ regops.calls[1].outcome = "raise"
    /\ regops.results[regops.calls[1].name] = "error"
    /\ regops.results[regops.calls[2].name] = "available"


----------------------------------------------------------------------------
(* Properties of the scheduler *)

\* C32: every call of the task handler by a fire of job J has the task type
\* and the task params given to the add_job call that made J, whatever jobs
\* were added later; J is then neither paused nor removed; and the fire,
\* whether the handler returned or raised, leaves every job as it was, so
\* that later fires go on.
C32_FireArguments ==
    [][(sched'.fires = sched.fires + 1 /\ sched.handler) =>
          LET job == sched'.last.job
          IN  /\ job \in DOMAIN sched.infos
              /\ sched'.last.task_type = sched.infos[job].task_type
              /\ sched'.last.task_params = sched.infos[job].task_params
              /\ sched.infos[job].present
              /\ sched.infos[job].enabled
              /\ sched'.infos = sched.infos
              /\ sched'.aps = sched.aps
              /\ sched'.running = sched.running]_vars

\* the first job fires after a second job with other arguments was added
\* and after an earlier fire's handler raised
C32_Witness ==
    /\ sched.last.job = 1
    /\ sched.last.outcome = "ok"
    /\ sched.errors >= 1
    /\ Len(sched.infos) = 2
    /\ sched.infos[1].task_type # sched.infos[2].task_type
    /\ sched.infos[1].task_params # sched.infos[2].task_params
    /\ ~sched.infos[2].enabled


----------------------------------------------------------------------------
(* Properties of the monitoring service *)

\* C33: a step of check_device_availability(threshold) sets offline exactly
\* the online devices last seen before now - threshold, leaves every other
\* device as it was, publishes one device.offline event per such device and
\* returns their number; a sweep that repeats the one before it, with the
\* same threshold and nothing in between, changes no device, publishes
\* nothing and returns 0.
C33_SweepExact ==
    [][(mon'.last.op = "device_availability_check" /\ mon'.last # mon.last /\ now' = now) =>
          LET threshold == mon'.last.threshold
              events == mon'.last.events
              old == {i \in DOMAIN devices : /\ devices[i].status = "online"
                                             /\ devices[i].last_seen + threshold < now}
          IN  /\ DOMAIN devices' = DOMAIN devices
              /\ \A i \in DOMAIN devices :
                    devices'[i] = IF i \in old THEN [devices[i] EXCEPT !.status = "offline"]
                                  ELSE devices[i]
              /\ mon'.last.returned = Cardinality(old)
              /\ Len(events) = Cardinality(old)
              /\ \A k \in DOMAIN events : events[k].type = "device.offline" /\ events[k].id \in old
              /\ \A i \in old : \E k \in DOMAIN events : events[k].id = i
              /\ mon'.last.repeat => (old = {} /\ devices' = devices)]_vars

\* a sweep has set a device offline and left an online one as it was, and
\* the same sweep repeated at once has returned 0
C33_Witness ==
    /\ mon.last.op = "device_availability_check"
    /\ mon.last.repeat
    /\ mon.last.returned = 0
    /\ mon.last.after = "device_availability_check"
    /\ \E i \in DOMAIN devices : devices[i].status = "online"
    /\ \E i \in DOMAIN devices : devices[i].status = "offline" /\ devices[i].last_seen < now

\* the events of a call that name the tool
EventsOfTool(events, tool) == {k \in DOMAIN events : events[k].tool = tool}

\* the events of a call are those of the changes from before to results: one
\* event for each tool that before holds with another status than results
\* and with a status that is not unknown, tool.online exactly if the new
\* status is available, and no event for any other tool
EventsAreChanges(events, before, results) ==
    \A tool \in DOMAIN results :
        IF /\ tool \in DOMAIN before
           /\ before[tool] # ToolStatusOf("unknown")
           /\ before[tool] # results[tool]
        THEN \E k \in DOMAIN events :
                /\ EventsOfTool(events, tool) = {k}
                /\ events[k].type = IF StatusValue(results[tool]) = "available"
                                    THEN "tool.online" ELSE "tool.offline"
        ELSE EventsOfTool(events, tool) = {}

C40_StatusCarried ==
    [][/\ (mon'.last.op = "tool_health_check" /\ mon'.last # mon.last) =>
              /\ EventsAreChanges(mon'.last.events, mon.health, mon'.last.results)
              /\ mon.health = <<>> => mon'.last.events = <<>>
              /\ mon'.health = mon'.last.results
       /\ (mon'.last.op = "device_availability_check" /\ mon'.last # mon.last) =>
              /\ mon'.health = mon.health
              /\ mon'.cache = mon.cache]_vars

\* a fire that follows a device_availability_check fire has published one
\* event for the one tool whose status differs from the fire before
C40_Witness ==
    /\ mon.last.op = "tool_health_check"
    /\ mon.last.after = "device_availability_check"
    /\ mon.last.before # <<>>
    /\ Len(mon.last.events) = 1
    /\ mon.last.events[1].type = "tool.online"
    /\ mon.last.events[1].previous_status = "error"


----------------------------------------------------------------------------
(* Properties of the process runner *)

\* C35: a call of run_command that ended has raised nothing; for a binary
\* that does not exist it has returned a result that is no success; after a
\* timeout the child is killed and the result is timed out and no success;
\* and the result is a success exactly if the return code is 0 and the run
\* did not time out.
C35_RunnerNeverRaises ==
    proc.pc = "done" =>
        /\ proc.raised = "none"
        /\ proc.binary = "missing" => ~Success(proc.result)
        /\ proc.timed_out => (proc.child = "killed" /\ proc.result.timed_out
                              /\ ~Success(proc.result))
        /\ Success(proc.result) <=> (proc.returncode = 0 /\ ~proc.timed_out)

====
